---------------------------- MODULE Spec2Model ----------------------------
(***************************************************************************)
(* Model of the resilient API orchestration core of wptools_window:        *)
(*   utils/api_key_manager.py  APIKeyManager   (credential rotation)       *)
(*   utils/rate_limiter.py     RateLimiter     (leaky bucket of size 1)    *)
(*   utils/cache_manager.py    Cache           (TTL + scored eviction)     *)
(*   core/wp_creator.py        process_keywords_parallel (dispatcher)      *)
(*                                                                         *)
(* Each component has its own specification (SpecKM, SpecKMConc, SpecRL,   *)
(* SpecCache, SpecDisp); the variables of the components a specification   *)
(* does not use keep their initial value.                                  *)
(*                                                                         *)
(* Time is an integer number of seconds (time.time()).  Error scores of    *)
(* the key manager are multiples of 0.5 in the code; the model stores      *)
(* TWICE the Python value (unit 0.5), so that +2 / +1 / +0.5 become        *)
(* +4 / +2 / +1 and "score >= max_errors" becomes "score >= 2*max_errors". *)
(***************************************************************************)
EXTENDS Integers, Sequences, FiniteSets, TLC

VARIABLES
    now,        \* time.time(), seconds
    km,         \* the APIKeyManager object (a record of its fields)
    km_last,    \* the last key-manager call that returned: name, arguments, result
    km_high,    \* slots whose presence in disabled_keys is due to a high-severity failure
    km_pc,      \* per thread: position inside mark_error (concurrent specification)
    rl,         \* the RateLimiter object: rate, interval, last_call_time
    rl_lock,    \* RateLimiter.lock: the thread holding it, 0 when free
    rl_pc,      \* per thread: position inside wait_if_needed
    rl_local,   \* per thread: current_time and wait_time of wait_if_needed
    rl_log,     \* the calls of wait_if_needed that have returned, in order
    cache,      \* the Cache object: max_items, default_ttl, cache_data, modified, last_saved
    cfile,      \* the file at Cache.file_path
    cbackups,   \* the backup files written by _backup_corrupted_file (name stamp and content)
    cache_last, \* the last Cache call that returned: name, key, cache before, result
    cache_steps, \* number of Cache calls, clock steps and disk changes so far
    cdisk,      \* whether a write under the cache directory succeeds: "ok" or "failing"
    cset,       \* each thread inside Cache.set: the statement it is at, its key, the keys it is about to delete
    ctmp,       \* the temporary file {stem}.tmp{suffix} next to Cache.file_path
    save_pc,    \* where the process is inside save(): "idle" outside it
    save_local, \* save(): the file at the path when it began and the document it writes
    keyword_list,    \* process_keywords_parallel: the keywords selected for the run
    max_workers,     \* its max_workers argument
    keyword_queue,   \* the queue.Queue of keywords
    stats,           \* successful, failed, processed, completed
    threads,         \* number of worker threads started
    worker_pc,       \* where each worker is in worker()
    worker_kw,       \* the keyword a worker holds
    worker_success,  \* the value create_post returned to it
    published_posts, \* WordPressAPI.published_posts['posts']: the keywords recorded
    publish_count,   \* per keyword, the posts created on the site in this run
    main_pc,         \* the calling thread: "running" or "returned"
    result,          \* the dict process_keywords_parallel returned
    run_log,         \* the keyword lists and returned counts of the earlier runs
    worker_call,     \* per worker, the create_post call it is in: whether the keyword
                     \* was recorded when it began, and what it has touched
    pause_log,       \* the pauses a worker has taken: the outcome before it, its length
    seq_run,         \* process_keywords: position, counters and returned dict of the run
    gen,             \* ContentGenerator and genai: initialized, last_reset_time, the
                     \* credential genai is configured with; the arguments of the run
    gen_pc,          \* per worker: where it is in research_and_generate_content
    gen_local,       \* per worker: attempts, tried_keys, current_key, current_key_index,
                     \* and the number of waits and upstream calls it has made
    gen_last,        \* per worker: its last upstream call or report to the key manager
    gen_result       \* per worker: what research_and_generate_content returned

kmVars == <<km, km_last, km_high, km_pc>>
rlVars == <<rl, rl_lock, rl_pc, rl_local, rl_log>>
cacheVars == <<cache, cfile, cbackups, cache_last, cache_steps, cdisk, cset, ctmp, save_pc, save_local>>
dispVars == <<keyword_list, max_workers, keyword_queue, stats, threads, worker_pc,
              worker_kw, worker_success, published_posts, publish_count, main_pc, result,
              run_log, worker_call>>
genVars == <<pause_log, seq_run, gen, gen_pc, gen_local, gen_last, gen_result>>
vars == <<now, km, km_last, km_high, km_pc, rl, rl_lock, rl_pc, rl_local, rl_log,
          cache, cfile, cbackups, cache_last, cache_steps, cdisk, cset, ctmp, save_pc, save_local,
          keyword_list, max_workers, keyword_queue, stats, threads, worker_pc,
          worker_kw, worker_success, published_posts, publish_count, main_pc, result,
          run_log, worker_call, pause_log, seq_run, gen, gen_pc, gen_local, gen_last,
          gen_result>>

----------------------------------------------------------------------------
(* Bounds of the model *)

KeyCounts == {1, 2, 3}        \* number of configured credentials N
MaxErrorsChoices == {1, 2, 5} \* max_errors (5 is the default of the constructor)
CooldownChoices == {1}        \* error_cooldown, seconds
Threads == {1, 2}             \* callers of the concurrent specification
MaxCalls == 2         \* total number of mark_success / mark_error calls
MaxTimeKM == 3        \* the clock stops advancing here
MaxDeepCalls == 3     \* the same total in SpecKMDeep
DeepMaxErrorsChoices == {3, 5}  \* max_errors in SpecKMDeep
Rates == {20, 30, 60} \* calls_per_minute of a RateLimiter
MaxRLCalls == 3       \* number of wait_if_needed calls
MaxIdleRL == 6        \* the clock advances at most this far past its start
MaxCacheSteps == 3    \* number of Cache calls and clock steps
MaxKeywords == 2      \* length of the keyword list passed to process_keywords_parallel
MaxRuns == 2          \* number of calls of process_keywords_parallel in SpecRuns

Min(S) == CHOOSE x \in S : \A y \in S : x <= y
Max2(a, b) == IF a >= b THEN a ELSE b

----------------------------------------------------------------------------
(* APIKeyManager *)

Slots(k) == 0 .. (k.n - 1)

ErrorTypes == {"rate_limit", "authentication", "network", "server", "content_policy", "unknown"}

\* An error message is modelled by the set of term groups of _analyze_error
\* that occur in its lower-cased text (several may occur in one message).
TermGroups == {"rate_limit", "authentication", "network", "server", "content_policy"}
Messages == { {}, {"rate_limit"}, {"authentication"}, {"network"}, {"server"},
              {"content_policy"}, {"server", "content_policy"} }

\* __init__
NewKeyManager(n, max_errors, error_cooldown) ==
    [ n |-> n,
      max_errors |-> max_errors,
      error_cooldown |-> error_cooldown,
      current_index |-> 0,
      error_counts |-> [i \in 0 .. (n - 1) |-> 0],
      call_counts |-> [i \in 0 .. (n - 1) |-> 0],
      disabled_keys |-> {},
      last_error_time |-> [i \in 0 .. (n - 1) |-> 0],
      error_types |-> [i \in 0 .. (n - 1) |-> [t \in ErrorTypes |-> 0]] ]

\* reset_all_keys
ResetAllKeys(k) ==
    [k EXCEPT !.error_counts = [i \in Slots(k) |-> 0],
              !.error_types = [i \in Slots(k) |-> [t \in ErrorTypes |-> 0]],
              !.disabled_keys = {}]

\* max(int(x // 2), 0) on a score x; h is twice x, the result is twice the new score
HalveMutKeep(h) == h
HalveMutNoFloor(h) == h \div 2
Halve(h) == Max2(2 * (h \div 4), 0)

\* the test of _reactivate_cooled_keys on one disabled slot
CooledMutByCategory(k, i, t) ==
    t - k.last_error_time[i] >
        (IF k.error_types[i]["rate_limit"] > 0 THEN k.error_cooldown * 2
         ELSE IF k.error_types[i]["authentication"] > 0 THEN k.error_cooldown * 5
         ELSE k.error_cooldown)
CooledMutGeq(k, i, t) == t - k.last_error_time[i] >= k.error_cooldown
Cooled(k, i, t) == t - k.last_error_time[i] > k.error_cooldown

\* _reactivate_cooled_keys
ReactivateCooledKeys(k, t) ==
    LET cooled == {i \in k.disabled_keys : Cooled(k, i, t)}
    IN  [k EXCEPT !.disabled_keys = k.disabled_keys \ cooled,
                  !.error_counts = [i \in Slots(k) |->
                        IF i \in cooled THEN Halve(k.error_counts[i]) ELSE k.error_counts[i]]]

\* next_key: the for loop visits (current_index + 1) % n, ..., (current_index + n) % n
\* and stops at the first slot that is not disabled; if it finds none, reset + slot 0
NextKeyMutNoSkip(k) == [k EXCEPT !.current_index = (k.current_index + 1) % k.n]
NextKeyMutLowest(k) ==
    IF Slots(k) \ k.disabled_keys # {}
    THEN [k EXCEPT !.current_index = Min(Slots(k) \ k.disabled_keys)]
    ELSE [ResetAllKeys(k) EXCEPT !.current_index = 0]
NextKey(k) ==
    LET steps == {j \in 1 .. k.n : ((k.current_index + j) % k.n) \notin k.disabled_keys}
    IN  IF steps # {}
        THEN [k EXCEPT !.current_index = (k.current_index + Min(steps)) % k.n]
        ELSE [ResetAllKeys(k) EXCEPT !.current_index = 0]

\* get_current_key: the state it leaves; it returns keys[current_index] of that state
GetCurrentKey(k, t) ==
    LET k1 == ReactivateCooledKeys(k, t)
    IN  IF k1.current_index \in k1.disabled_keys THEN NextKey(k1)
        ELSE IF Cardinality(k1.disabled_keys) = k1.n THEN ResetAllKeys(k1)
        ELSE k1

\* mark_success
MarkSuccessMutClear(k) ==
    [k EXCEPT !.call_counts[k.current_index] = @ + 1, !.error_counts[k.current_index] = 0]
MarkSuccess(k) ==
    LET c == k.current_index
    IN  [k EXCEPT !.call_counts[c] = @ + 1,
                  !.error_counts[c] = IF @ > 0 THEN Max2(0, @ - 1) ELSE @]

\* number of failures recorded in a slot's histogram
FailureCount(k, i) ==
    k.error_types[i]["rate_limit"] + k.error_types[i]["authentication"]
        + k.error_types[i]["network"] + k.error_types[i]["server"]
        + k.error_types[i]["content_policy"] + k.error_types[i]["unknown"]

\* _analyze_error: the if / elif chain over the term groups, in source order
AnalyzeErrorMutCount(k, msg) ==
    IF "rate_limit" \in msg
      THEN [type |-> "rate_limit", severity |-> "high", should_switch |-> TRUE,
            cooldown |-> k.error_cooldown * 2]
    ELSE IF "authentication" \in msg
      THEN [type |-> "authentication", severity |-> "high", should_switch |-> TRUE,
            cooldown |-> k.error_cooldown * 5]
    ELSE IF "network" \in msg
      THEN [type |-> "network", severity |-> "medium",
            should_switch |-> FailureCount(k, k.current_index) >= 2, cooldown |-> 0]
    ELSE IF "server" \in msg
      THEN [type |-> "server", severity |-> "medium",
            should_switch |-> FailureCount(k, k.current_index) >= 2, cooldown |-> 0]
    ELSE IF "content_policy" \in msg
      THEN [type |-> "content_policy", severity |-> "high", should_switch |-> TRUE,
            cooldown |-> 0]
    ELSE [type |-> "unknown", severity |-> "normal", should_switch |-> FALSE, cooldown |-> 0]
AnalyzeError(k, msg) ==
    IF "rate_limit" \in msg
      THEN [type |-> "rate_limit", severity |-> "high", should_switch |-> TRUE,
            cooldown |-> k.error_cooldown * 2]
    ELSE IF "authentication" \in msg
      THEN [type |-> "authentication", severity |-> "high", should_switch |-> TRUE,
            cooldown |-> k.error_cooldown * 5]
    ELSE IF "network" \in msg
      THEN [type |-> "network", severity |-> "medium",
            should_switch |-> k.error_counts[k.current_index] >= 4, cooldown |-> 0]
    ELSE IF "server" \in msg
      THEN [type |-> "server", severity |-> "medium",
            should_switch |-> k.error_counts[k.current_index] >= 4, cooldown |-> 0]
    ELSE IF "content_policy" \in msg
      THEN [type |-> "content_policy", severity |-> "high", should_switch |-> TRUE,
            cooldown |-> 0]
    ELSE [type |-> "unknown", severity |-> "normal", should_switch |-> FALSE, cooldown |-> 0]

\* error_increment of mark_error, in units of 0.5
ErrorIncrementMutFlat(severity) == 2
ErrorIncrement(severity) ==
    IF severity = "high" THEN 4 ELSE IF severity = "medium" THEN 2 ELSE 1

\* mark_error, lines 111-125: statistics and score of the active slot
MarkErrorStats(k, msg, t) ==
    LET c == k.current_index
        d == AnalyzeError(k, msg)
    IN  [k EXCEPT !.last_error_time[c] = t,
                  !.call_counts[c] = @ + 1,
                  !.error_types[c][d.type] = @ + 1,
                  !.error_counts[c] = @ + ErrorIncrement(d.severity)]

\* mark_error, lines 133-138 and 148-150: whether the active slot is disabled
\* (k is the state before the call, k1 the state after MarkErrorStats)
MarkErrorDisablesMutThreshold(k, msg, k1) ==
    k1.error_counts[k1.current_index] >= 2 * k1.max_errors
MarkErrorDisables(k, msg, k1) ==
    LET d == AnalyzeError(k, msg)
    IN  IF d.should_switch
        THEN d.severity = "high" \/ k1.error_counts[k1.current_index] >= 2 * k1.max_errors
        ELSE k1.error_counts[k1.current_index] >= 2 * k1.max_errors

\* mark_error: whether it rotates (calls next_key and returns True)
MarkErrorRotatesMutThreshold(k, msg, k1) ==
    k1.error_counts[k1.current_index] >= 2 * k1.max_errors
MarkErrorRotates(k, msg, k1) ==
    AnalyzeError(k, msg).should_switch
        \/ k1.error_counts[k1.current_index] >= 2 * k1.max_errors

\* mark_error up to, not including, the call of next_key
MarkErrorUpdate(k, msg, t) ==
    LET k1 == MarkErrorStats(k, msg, t)
    IN  IF MarkErrorDisables(k, msg, k1)
        THEN [k1 EXCEPT !.disabled_keys = @ \cup {k1.current_index}]
        ELSE k1

\* mark_error as a whole
MarkError(k, msg, t) ==
    LET k1 == MarkErrorStats(k, msg, t)
        k2 == MarkErrorUpdate(k, msg, t)
    IN  IF MarkErrorRotates(k, msg, k1) THEN NextKey(k2) ELSE k2

RECURSIVE SumCalls(_, _)
SumCalls(k, i) == IF i < 0 THEN 0 ELSE k.call_counts[i] + SumCalls(k, i - 1)
TotalCalls(k) == SumCalls(k, k.n - 1)

NoCall == [op |-> "none"]

\* which slots are in disabled_keys because of a high-severity failure
HighAfter(high, extra, k2) == (high \cup extra) \cap k2.disabled_keys

----------------------------------------------------------------------------
(* RateLimiter *)

\* self.interval = 60.0 / calls_per_minute (Rates holds divisors of 60)
Interval(rate) == 60 \div rate

\* __init__
NewRateLimiter(calls_per_minute) ==
    [rate |-> calls_per_minute, interval |-> Interval(calls_per_minute), last_call_time |-> 0]

NoLocal == [current_time |-> 0, wait_time |-> 0]

\* wait_if_needed, lines 32-39: the time to sleep
WaitTimeMutHalf(r, t) ==
    IF t - r.last_call_time < r.interval THEN (r.interval - (t - r.last_call_time)) \div 2 ELSE 0
WaitTime(r, t) ==
    LET elapsed_time == t - r.last_call_time
    IN  IF elapsed_time < r.interval THEN r.interval - elapsed_time ELSE 0

\* wait_if_needed, line 43: the value stored in last_call_time (t is the clock
\* after the sleep, loc the locals of the call)
LastCallTimeMutBeforeSleep(t, loc) == loc.current_time
LastCallTime(t, loc) == t

----------------------------------------------------------------------------
(* Cache and CacheEntry *)

NoTTL == -1               \* ttl = None: the entry never expires
NoArg == -1               \* an optional argument that is None
AutoSaveInterval == 60    \* self.auto_save_interval
ScoreCap == 1000          \* the clamp of the recency term of the eviction score
SecondsPerDay == 24 * 60 * 60    \* cleanup_all_caches: days to seconds

RawKeys == {"a", "A ", "b", "c"}
Values == {"v1", "v2"}
Default == "None"         \* get's default
TTLArgs == {NoArg, 1}     \* the ttl argument of set
MaxItemsChoices == {1, 2}
DefaultTTLChoices == {NoTTL, 2}
TickSteps == {1, AutoSaveInterval + 1}

\* key.lower().strip()
Normalize(raw) == IF raw = "A " THEN "a" ELSE raw

Min2(a, b) == IF a <= b THEN a ELSE b

\* no thread is inside Cache.set
NoSetCall == [pc |-> "idle", key |-> "", victims |-> <<>>]
NoSets == [t \in Threads |-> NoSetCall]

NoFile == [kind |-> "missing", saved |-> 0, entries |-> <<>>]
CorruptFile == [kind |-> "corrupt", saved |-> 0, entries |-> <<>>]

\* Cache.__init__ before load(); cache_data is the dict in insertion order
NewCache(max_items, default_ttl) ==
    [max_items |-> max_items, default_ttl |-> default_ttl, cache_data |-> <<>>,
     modified |-> FALSE, last_saved |-> 0]

\* CacheEntry.__init__ (metadata or {} is the empty map for metadata = None)
NewEntry(key, value, ttl, t) ==
    [key |-> key, data |-> value, timestamp |-> t, ttl |-> ttl, metadata |-> <<>>,
     access_count |-> 0, last_access |-> t]

\* CacheEntry.to_dict, stored under its key in 'entries'
ToDict(e) ==
    [key |-> e.key, data |-> e.data, timestamp |-> e.timestamp, ttl |-> e.ttl,
     metadata |-> e.metadata, access_count |-> e.access_count, last_access |-> e.last_access]

\* CacheEntry.from_dict
FromDictMutDropTTL(x) ==
    [key |-> x.key, data |-> x.data, timestamp |-> x.timestamp, ttl |-> NoTTL,
     metadata |-> x.metadata, access_count |-> x.access_count, last_access |-> x.last_access]
FromDict(x) ==
    [key |-> x.key, data |-> x.data, timestamp |-> x.timestamp, ttl |-> x.ttl,
     metadata |-> x.metadata, access_count |-> x.access_count, last_access |-> x.last_access]

\* CacheEntry.is_expired
IsExpired(e, t) == IF e.ttl = NoTTL THEN FALSE ELSE t - e.timestamp > e.ttl

\* CacheEntry.update_access
UpdateAccessMutNoStamp(e, t) == [e EXCEPT !.access_count = @ + 1]
UpdateAccess(e, t) == [e EXCEPT !.access_count = @ + 1, !.last_access = t]

KeysOf(data) == {data[i].key : i \in 1 .. Len(data)}
IndexOfKey(data, key) == CHOOSE i \in 1 .. Len(data) : data[i].key = key
WithoutKeys(data, ks) == SelectSeq(data, LAMBDA e : e.key \notin ks)

\* self.cache_data[key] = entry: an existing key keeps its place in the dict
PutEntry(data, e) ==
    IF e.key \in KeysOf(data)
    THEN [data EXCEPT ![IndexOfKey(data, e.key)] = e]
    ELSE Append(data, e)

\* the score of _limit_cache_size
EvictionScoreMutNoRecency(e, t) == e.access_count * 10
EvictionScore(e, t) == (e.access_count * 10) + (ScoreCap - Min2(ScoreCap, t - e.last_access))

\* _limit_cache_size: the keys deleted by the second phase; sorted() is stable,
\* so entries of equal score go in dict order
EvictedKeysMutHighest(data, max_items, t) ==
    LET n == Len(data)
        Before(j, i) == \/ EvictionScore(data[j], t) > EvictionScore(data[i], t)
                        \/ (EvictionScore(data[j], t) = EvictionScore(data[i], t) /\ j < i)
        Rank(i) == Cardinality({j \in 1 .. n : Before(j, i)})
    IN  {data[i].key : i \in {i \in 1 .. n : Rank(i) < n - max_items}}
EvictedKeys(data, max_items, t) ==
    LET n == Len(data)
        Before(j, i) == \/ EvictionScore(data[j], t) < EvictionScore(data[i], t)
                        \/ (EvictionScore(data[j], t) = EvictionScore(data[i], t) /\ j < i)
        Rank(i) == Cardinality({j \in 1 .. n : Before(j, i)})
    IN  {data[i].key : i \in {i \in 1 .. n : Rank(i) < n - max_items}}

\* _limit_cache_size
LimitCacheSizeMutExpiredOnly(data, max_items, t) ==
    IF Len(data) <= max_items THEN data
    ELSE SelectSeq(data, LAMBDA e : ~IsExpired(e, t))
LimitCacheSizeMutKeepFirst(data, max_items, t) ==
    IF Len(data) <= max_items THEN data ELSE SubSeq(data, 1, max_items)
LimitCacheSize(data, max_items, t) ==
    IF Len(data) <= max_items THEN data
    ELSE LET live == SelectSeq(data, LAMBDA e : ~IsExpired(e, t))
         IN  IF Len(live) > max_items
             THEN WithoutKeys(live, EvictedKeys(live, max_items, t))
             ELSE live

\* save: the cache after it (the write succeeds)
SaveCache(c, t) == IF c.modified THEN [c EXCEPT !.modified = FALSE, !.last_saved = t] ELSE c

\* save: the file after it (temporary file written, then os.replace)
SaveFile(c, f, t) ==
    IF c.modified
    THEN [kind |-> "v2", saved |-> t,
          entries |-> [i \in 1 .. Len(c.cache_data) |-> ToDict(c.cache_data[i])]]
    ELSE f

\* save, except branch: the exception is logged and nothing is assigned
SaveFailedMutClean(c) == [c EXCEPT !.modified = FALSE]
SaveFailed(c) == c

NoSave == [op |-> "none", old |-> NoFile, new |-> NoFile]

\* save: the file json.dump writes to, the temporary file next to the path
DumpTargetMutInPlace == "path"
DumpTarget == "temp"

\* open(..., 'w') has truncated a file, or json.dump has written part of the
\* document: text that does not parse
PartialFile == CorruptFile

\* save() as one step: the cache, the file, the temporary file and the value
\* returned; on a failing disk the write of the temporary file raises
SaveOutcome(c, f, tmp, t, disk) ==
    IF ~c.modified THEN [cache |-> c, file |-> f, tmp |-> tmp, ret |-> "True"]
    ELSE IF disk = "ok"
         THEN [cache |-> SaveCache(c, t), file |-> SaveFile(c, f, t), tmp |-> NoFile,
               ret |-> "True"]
         ELSE [cache |-> SaveFailed(c), file |-> f, tmp |-> CorruptFile, ret |-> "False"]

\* the test of _auto_save
AutoSaveDueMutDirtyOnly(c, t) == c.modified
AutoSaveDue(c, t) == c.modified /\ (t - c.last_saved) > AutoSaveInterval

\* _auto_save
AutoSaveCache(c, t) == IF AutoSaveDue(c, t) THEN SaveCache(c, t) ELSE c
AutoSaveFile(c, f, t) == IF AutoSaveDue(c, t) THEN SaveFile(c, f, t) ELSE f

\* _auto_save as one step, on either disk
AutoSaveOutcome(c, f, tmp, t, disk) ==
    IF ~AutoSaveDue(c, t) THEN [cache |-> c, file |-> f, tmp |-> tmp, ret |-> "True"]
    ELSE IF disk = "ok"
         THEN [cache |-> AutoSaveCache(c, t), file |-> AutoSaveFile(c, f, t), tmp |-> NoFile,
               ret |-> "True"]
         ELSE [cache |-> SaveFailed(c), file |-> f, tmp |-> CorruptFile, ret |-> "False"]

\* delete
DeleteKey(c, key) ==
    IF key \in KeysOf(c.cache_data)
    THEN [c EXCEPT !.cache_data = WithoutKeys(@, {key}), !.modified = TRUE]
    ELSE c

\* get on a key whose entry is expired: self.delete(key)
ExpiredGetMutKeep(c, key) == c
ExpiredGet(c, key) == DeleteKey(c, key)

\* get, before _auto_save: the cache it leaves
GetCache(c, key, t) ==
    IF key \notin KeysOf(c.cache_data) THEN c
    ELSE LET i == IndexOfKey(c.cache_data, key)
         IN  IF IsExpired(c.cache_data[i], t) THEN ExpiredGet(c, key)
             ELSE [c EXCEPT !.cache_data[i] = UpdateAccess(@, t), !.modified = TRUE]

\* get: whether it reaches _auto_save (a hit)
GetHits(c, key, t) ==
    key \in KeysOf(c.cache_data) /\ ~IsExpired(c.cache_data[IndexOfKey(c.cache_data, key)], t)

\* get: the value returned
GetResult(c, key, t) ==
    IF GetHits(c, key, t) THEN c.cache_data[IndexOfKey(c.cache_data, key)].data ELSE Default

\* set, before _auto_save
SetCache(c, key, value, ttl, t) ==
    LET eff == IF ttl = NoArg THEN c.default_ttl ELSE ttl
        put == PutEntry(c.cache_data, NewEntry(key, value, eff, t))
    IN  [c EXCEPT !.cache_data = LimitCacheSize(put, c.max_items, t), !.modified = TRUE]

\* load on a fresh Cache c0: the entries of a version-2 document; a missing
\* or corrupt file leaves the store empty
LoadCache(c0, f) ==
    IF f.kind = "v2"
    THEN [c0 EXCEPT !.cache_data = [i \in 1 .. Len(f.entries) |-> FromDict(f.entries[i])]]
    ELSE [c0 EXCEPT !.cache_data = <<>>]

\* load: the value returned
LoadResult(f) == IF f.kind = "v2" THEN "True" ELSE "False"

\* _backup_corrupted_file, reached from load's except branch: a copy of the
\* file under {stem}.bak.{int(time.time())}{suffix}; a second backup within the
\* same second has the same name and replaces the first; a copy that fails is
\* only logged
BackupCorruptedFileMutNone(backups, f, t, disk) == backups
BackupCorruptedFile(backups, f, t, disk) ==
    IF f.kind = "corrupt" /\ disk = "ok"
    THEN {b \in backups : b.stamp # t} \cup {[stamp |-> t, content |-> f]}
    ELSE backups

\* CacheManager.cleanup_all on one cache: delete the expired entries
CleanupExpired(c, t) ==
    LET expired == {c.cache_data[i].key : i \in {i \in 1 .. Len(c.cache_data) : IsExpired(c.cache_data[i], t)}}
    IN  IF expired = {} THEN c
        ELSE [c EXCEPT !.cache_data = WithoutKeys(@, expired), !.modified = TRUE]

\* cleanup_all_caches: the temporary configuration it sets
CleanupConfig(c, max_age_days, max_items) ==
    [c EXCEPT !.default_ttl = IF max_age_days = NoArg THEN @ ELSE max_age_days * SecondsPerDay,
              !.max_items = IF max_items = NoArg THEN @ ELSE max_items]

----------------------------------------------------------------------------
(* WordPressContentCreator.process_keywords_parallel *)

Keywords == {"k1", "k2"}
Workers == {1, 2, 3}
WorkerCounts == {0, 1, 2, 3}        \* the max_workers argument
MaxKeywordsArgs == {NoArg, 1}       \* the max_keywords argument
PublishedChoices == {{}, {"k2"}}    \* published_posts.json left by earlier runs
Outcomes == {"content_failed", "publish_failed", "published"}

KeywordLists == UNION {[1 .. n -> Keywords] : n \in 0 .. MaxKeywords}

\* random.shuffle(keyword_list): the orders it can produce
Shuffles(l) == {[i \in 1 .. Len(l) |-> l[p[i]]] : p \in Permutations(1 .. Len(l))}

\* keyword_list[:max_keywords]
Truncate(l, max_keywords) ==
    IF max_keywords = NoArg THEN l ELSE SubSeq(l, 1, Min2(max_keywords, Len(l)))

\* the keyword lists a call can select
SelectedLists(keywords, max_keywords, random_order) ==
    {Truncate(l, max_keywords) : l \in (IF random_order THEN Shuffles(keywords) ELSE {keywords})}

\* check_post_exists
CheckPostExistsMutNever(keyword, posts) == FALSE
CheckPostExists(keyword, posts) == keyword \in posts

\* what create_post uses after the check: research_and_generate_content reads
\* keyword_cache, waits on gemini_limiter and asks gemini_key_manager for a key;
\* publish_post is called only when content was generated
Touched(outcome) ==
    IF outcome = "content_failed"
    THEN {"cache", "rate_limiter", "key_manager"}
    ELSE {"cache", "rate_limiter", "key_manager", "publish"}

\* where a worker goes after the sleep that follows an item: back to the loop
\* test, whether the item succeeded or failed
AfterSleepMutStopOnFailure(success) == IF success THEN "loop" ELSE "done"
AfterSleep(success) == "loop"

NoCreate == [existed |-> FALSE, touched |-> {}]

NewStats == [successful |-> 0, failed |-> 0, processed |-> 0, completed |-> <<>>]

\* the update of stats under stats_lock
RecordStatsMutNoFailed(st, keyword, success) ==
    [st EXCEPT !.successful = IF success THEN @ + 1 ELSE @,
               !.processed = @ + 1,
               !.completed = Append(@, <<keyword, success>>)]
RecordStatsMutTwice(st, keyword, success) ==
    [st EXCEPT !.successful = IF success THEN @ + 2 ELSE @,
               !.failed = IF success THEN @ ELSE @ + 2,
               !.processed = @ + 2,
               !.completed = Append(Append(@, <<keyword, success>>), <<keyword, success>>)]
RecordStats(st, keyword, success) ==
    [st EXCEPT !.successful = IF success THEN @ + 1 ELSE @,
               !.failed = IF success THEN @ ELSE @ + 1,
               !.processed = @ + 1,
               !.completed = Append(@, <<keyword, success>>)]

\* range(min(max_workers, total_keywords))
ThreadCount(w, total) == IF Min2(w, total) < 0 THEN 0 ELSE Min2(w, total)

NoResult == [total_processed |-> -1, successful |-> -1, failed |-> -1, joined |-> FALSE]

\* the returned dict; joined tells whether every join() ended because its
\* thread had finished
Result(total, st, joined) ==
    [total_processed |-> total, successful |-> st.successful, failed |-> st.failed,
     joined |-> joined]

----------------------------------------------------------------------------
(* SpecKM: one caller, every call runs from entry to return.  km_last is   *)
(* the call that has just returned (pre is the manager before the call);   *)
(* it is forgotten when the clock advances.                                *)

KMUnused ==
    /\ km = NewKeyManager(1, 1, 1)
    /\ km_last = NoCall
    /\ km_high = {}
    /\ km_pc = [t \in Threads |-> "idle"]

RLUnused ==
    /\ rl = NewRateLimiter(60)
    /\ rl_lock = 0
    /\ rl_pc = [t \in Threads |-> "idle"]
    /\ rl_local = [t \in Threads |-> NoLocal]
    /\ rl_log = <<>>

(* ContentGenerator.research_and_generate_content and process_keywords: the
   values of their variables before any call *)

GenWorkers == {1, 2}
NoSlot == -1
NoSeqRun == [pc |-> "unstarted"]
NoGenerator ==
    [initialized |-> FALSE, last_reset_time |-> 0, configured |-> NoSlot,
     max_attempts |-> 0, invalid |-> {}, ticks |-> 0]
NoAttempt ==
    [attempts |-> 0, tried_keys |-> {}, current_key |-> NoSlot, current_key_index |-> NoSlot,
     waits |-> 0, gets |-> 0, calls |-> 0, outcome |-> "none", found |-> "none"]
NoEvent == [kind |-> "none"]

GenUnused ==
    /\ pause_log = <<>>
    /\ seq_run = NoSeqRun
    /\ gen = NoGenerator
    /\ gen_pc = [w \in GenWorkers |-> "unstarted"]
    /\ gen_local = [w \in GenWorkers |-> NoAttempt]
    /\ gen_last = [w \in GenWorkers |-> NoEvent]
    /\ gen_result = [w \in GenWorkers |-> "none"]

DispUnused ==
    /\ keyword_list = <<>>
    /\ max_workers = 0
    /\ keyword_queue = <<>>
    /\ stats = NewStats
    /\ threads = 0
    /\ worker_pc = [w \in Workers |-> "unstarted"]
    /\ worker_kw = [w \in Workers |-> ""]
    /\ worker_success = [w \in Workers |-> FALSE]
    /\ published_posts = {}
    /\ publish_count = [k \in Keywords |-> 0]
    /\ main_pc = "returned"
    /\ result = NoResult
    /\ run_log = <<>>
    /\ worker_call = [w \in Workers |-> NoCreate]

CacheUnused ==
    /\ cache = NewCache(1, NoTTL)
    /\ cfile = NoFile
    /\ cbackups = {}
    /\ cache_last = NoCall
    /\ cache_steps = 0
    /\ cdisk = "ok"
    /\ cset = NoSets
    /\ ctmp = NoFile
    /\ save_pc = "idle"
    /\ save_local = NoSave

InitKM ==
    /\ now = 1
    /\ RLUnused
    /\ CacheUnused
    /\ DispUnused
    /\ \E n \in KeyCounts, m \in MaxErrorsChoices, c \in CooldownChoices :
           km = NewKeyManager(n, m, c)
    /\ km_last = NoCall
    /\ km_high = {}
    /\ km_pc = [t \in Threads |-> "idle"]
    /\ GenUnused

GetCurrentKeyOp ==
    /\ km' = GetCurrentKey(km, now)
    /\ km_last' = [op |-> "get_current_key", pre |-> km, ret |-> km'.current_index]
    /\ km_high' = HighAfter(km_high, {}, km')
    /\ UNCHANGED <<now, km_pc>>
    /\ UNCHANGED <<rlVars, cacheVars, dispVars, genVars>>

NextKeyOp ==
    /\ km' = NextKey(km)
    /\ km_last' = [op |-> "next_key", pre |-> km, ret |-> km'.current_index]
    /\ km_high' = HighAfter(km_high, {}, km')
    /\ UNCHANGED <<now, km_pc>>
    /\ UNCHANGED <<rlVars, cacheVars, dispVars, genVars>>

MarkSuccessOp ==
    /\ TotalCalls(km) < MaxCalls
    /\ km' = MarkSuccess(km)
    /\ km_last' = [op |-> "mark_success", pre |-> km]
    /\ UNCHANGED <<now, km_high, km_pc>>
    /\ UNCHANGED <<rlVars, cacheVars, dispVars, genVars>>

MarkErrorOp ==
    /\ TotalCalls(km) < MaxCalls
    /\ \E msg \in Messages :
        LET k1 == MarkErrorStats(km, msg, now)
            d == AnalyzeError(km, msg)
        IN  /\ km' = MarkError(km, msg, now)
            /\ km_last' = [op |-> "mark_error", pre |-> km, type |-> d.type,
                           severity |-> d.severity,
                           ret |-> MarkErrorRotates(km, msg, k1),
                           mid |-> MarkErrorUpdate(km, msg, now)]
            /\ km_high' = HighAfter(km_high,
                              IF d.severity = "high" /\ MarkErrorDisables(km, msg, k1)
                                  THEN {km.current_index} ELSE {},
                              km')
    /\ UNCHANGED <<now, km_pc>>
    /\ UNCHANGED <<rlVars, cacheVars, dispVars, genVars>>

TickKM ==
    /\ now < MaxTimeKM
    /\ now' = now + 1
    /\ km_last' = NoCall
    /\ UNCHANGED <<km, km_high, km_pc>>
    /\ UNCHANGED <<rlVars, cacheVars, dispVars, genVars>>

NextKM == GetCurrentKeyOp \/ NextKeyOp \/ MarkSuccessOp \/ MarkErrorOp \/ TickKM

SpecKM == InitKM /\ [][NextKM]_vars

----------------------------------------------------------------------------
(* SpecKMDeep: the same caller with 2 credentials and a larger max_errors, *)
(* followed over more mark_success / mark_error calls.                     *)

InitKMDeep ==
    /\ now = 1
    /\ RLUnused
    /\ CacheUnused
    /\ DispUnused
    /\ \E m \in DeepMaxErrorsChoices, c \in CooldownChoices : km = NewKeyManager(2, m, c)
    /\ km_last = NoCall
    /\ km_high = {}
    /\ km_pc = [t \in Threads |-> "idle"]
    /\ GenUnused

MarkSuccessDeepOp ==
    /\ TotalCalls(km) < MaxDeepCalls
    /\ km' = MarkSuccess(km)
    /\ km_last' = [op |-> "mark_success", pre |-> km]
    /\ UNCHANGED <<now, km_high, km_pc>>
    /\ UNCHANGED <<rlVars, cacheVars, dispVars, genVars>>

MarkErrorDeepOp ==
    /\ TotalCalls(km) < MaxDeepCalls
    /\ \E msg \in Messages :
        LET k1 == MarkErrorStats(km, msg, now)
            d == AnalyzeError(km, msg)
        IN  /\ km' = MarkError(km, msg, now)
            /\ km_last' = [op |-> "mark_error", pre |-> km, type |-> d.type,
                           severity |-> d.severity,
                           ret |-> MarkErrorRotates(km, msg, k1),
                           mid |-> MarkErrorUpdate(km, msg, now)]
            /\ km_high' = HighAfter(km_high,
                              IF d.severity = "high" /\ MarkErrorDisables(km, msg, k1)
                                  THEN {km.current_index} ELSE {},
                              km')
    /\ UNCHANGED <<now, km_pc>>
    /\ UNCHANGED <<rlVars, cacheVars, dispVars, genVars>>

NextKMDeep == GetCurrentKeyOp \/ NextKeyOp \/ MarkSuccessDeepOp \/ MarkErrorDeepOp \/ TickKM

SpecKMDeep == InitKMDeep /\ [][NextKMDeep]_vars

----------------------------------------------------------------------------
(* SpecKMConc: the manager shared by the worker threads.  APIKeyManager    *)
(* holds no lock, so another thread can run between mark_error's update of *)
(* disabled_keys (line 138 / 150) and its call of next_key (line 144 /     *)
(* 151).  The clock does not advance while a thread is inside mark_error.  *)

MarkErrorBeginC(t) ==
    /\ km_pc[t] = "idle"
    /\ TotalCalls(km) < MaxCalls
    /\ \E msg \in Messages :
        LET k1 == MarkErrorStats(km, msg, now)
            d == AnalyzeError(km, msg)
        IN  /\ km' = MarkErrorUpdate(km, msg, now)
            /\ km_pc' = [km_pc EXCEPT ![t] =
                            IF MarkErrorRotates(km, msg, k1) THEN "next_key" ELSE "idle"]
            /\ km_last' = [op |-> "mark_error_update", pre |-> km]
            /\ km_high' = HighAfter(km_high,
                              IF d.severity = "high" /\ MarkErrorDisables(km, msg, k1)
                                  THEN {km.current_index} ELSE {},
                              km')
    /\ UNCHANGED now
    /\ UNCHANGED <<rlVars, cacheVars, dispVars, genVars>>

MarkErrorRotateC(t) ==
    /\ km_pc[t] = "next_key"
    /\ km' = NextKey(km)
    /\ km_pc' = [km_pc EXCEPT ![t] = "idle"]
    /\ km_last' = [op |-> "mark_error", pre |-> km]
    /\ km_high' = HighAfter(km_high, {}, km')
    /\ UNCHANGED now
    /\ UNCHANGED <<rlVars, cacheVars, dispVars, genVars>>

GetCurrentKeyC(t) ==
    /\ km_pc[t] = "idle"
    /\ km' = GetCurrentKey(km, now)
    /\ km_last' = [op |-> "get_current_key", pre |-> km, ret |-> km'.current_index]
    /\ km_high' = HighAfter(km_high, {}, km')
    /\ UNCHANGED <<now, km_pc>>
    /\ UNCHANGED <<rlVars, cacheVars, dispVars, genVars>>

TickKMC ==
    /\ \A t \in Threads : km_pc[t] = "idle"
    /\ now < MaxTimeKM
    /\ now' = now + 1
    /\ km_last' = NoCall
    /\ UNCHANGED <<km, km_high, km_pc>>
    /\ UNCHANGED <<rlVars, cacheVars, dispVars, genVars>>

NextKMConc ==
    \/ \E t \in Threads : MarkErrorBeginC(t)
    \/ \E t \in Threads : MarkErrorRotateC(t)
    \/ \E t \in Threads : GetCurrentKeyC(t)
    \/ TickKMC

SpecKMConc == InitKM /\ [][NextKMConc]_vars

----------------------------------------------------------------------------
(* SpecRL: threads calling wait_if_needed on one limiter.  The body runs   *)
(* under self.lock; time.sleep returns no earlier than asked and possibly  *)
(* later.  A call's return is identified with its last reading of the      *)
(* clock (line 43): the log and the release that follow take no time.      *)

\* time.time() when the limiter is first used: far from last_call_time = 0,
\* so that the first call never waits
StartRL == Interval(Min(Rates))

InitRL ==
    /\ \E r \in Rates : rl = NewRateLimiter(r)
    /\ now = StartRL
    /\ rl_lock = 0
    /\ rl_pc = [t \in Threads |-> "idle"]
    /\ rl_local = [t \in Threads |-> NoLocal]
    /\ rl_log = <<>>
    /\ KMUnused
    /\ CacheUnused
    /\ DispUnused
    /\ GenUnused

\* with self.lock: lines 31-39, up to the call of time.sleep
RLEnter(t) ==
    /\ rl_pc[t] = "idle"
    /\ rl_lock = 0
    /\ Len(rl_log) + Cardinality({u \in Threads : rl_pc[u] # "idle"}) < MaxRLCalls
    /\ rl_lock' = t
    /\ rl_local' = [rl_local EXCEPT ![t] = [current_time |-> now, wait_time |-> WaitTime(rl, now)]]
    /\ rl_pc' = [rl_pc EXCEPT ![t] = "sleep"]
    /\ UNCHANGED <<now, rl, rl_log>>
    /\ UNCHANGED <<kmVars, cacheVars, dispVars, genVars>>

\* lines 40-48: time.sleep(wait_time) is over, last_call_time is set, the lock released
RLReturn(t) ==
    /\ rl_pc[t] = "sleep"
    /\ now >= rl_local[t].current_time + rl_local[t].wait_time
    /\ rl' = [rl EXCEPT !.last_call_time = LastCallTime(now, rl_local[t])]
    /\ rl_log' = Append(rl_log, [thread |-> t, entered |-> rl_local[t].current_time,
                                 waited |-> rl_local[t].wait_time, returned |-> now,
                                 idle |-> rl_local[t].current_time - rl.last_call_time])
    /\ rl_lock' = 0
    /\ rl_pc' = [rl_pc EXCEPT ![t] = "idle"]
    /\ rl_local' = [rl_local EXCEPT ![t] = NoLocal]
    /\ UNCHANGED now
    /\ UNCHANGED <<kmVars, cacheVars, dispVars, genVars>>

TickRL ==
    /\ now < StartRL + MaxIdleRL
    /\ now' = now + 1
    /\ UNCHANGED <<rlVars, cacheVars, dispVars, genVars>>
    /\ UNCHANGED <<kmVars, cacheVars, dispVars, genVars>>

NextRL ==
    \/ \E t \in Threads : RLEnter(t)
    \/ \E t \in Threads : RLReturn(t)
    \/ TickRL

SpecRL == InitRL /\ [][NextRL]_vars

\* update_rate begins with 'with self.lock:'
UpdateRateTakesLockMutNo == FALSE
UpdateRateTakesLock == TRUE

\* update_rate(new_calls_per_minute), by a thread that is not inside
\* wait_if_needed: both assignments are made holding the lock
UpdateRate(r) ==
    /\ UpdateRateTakesLock => rl_lock = 0
    /\ rl' = [rl EXCEPT !.rate = r, !.interval = Interval(r)]
    /\ UNCHANGED <<now, rl_lock, rl_pc, rl_local, rl_log>>
    /\ UNCHANGED <<kmVars, cacheVars, dispVars, genVars>>

NextRLUpdate ==
    \/ \E t \in Threads : RLEnter(t)
    \/ \E t \in Threads : RLReturn(t)
    \/ TickRL
    \/ \E r \in Rates : UpdateRate(r)

SpecRLUpdate == InitRL /\ [][NextRLUpdate]_vars

----------------------------------------------------------------------------
(* SpecCache: one Cache used by one caller; every call runs from entry to  *)
(* return.  The process starts with no cache file.  cache_last is the call *)
(* that has just returned; it is forgotten when the clock advances.        *)

\* time.time() at start: far from last_saved = 0
StartCache == AutoSaveInterval + 1

InitCache ==
    /\ now = StartCache
    /\ \E m \in MaxItemsChoices, d \in DefaultTTLChoices : cache = NewCache(m, d)
    /\ cfile = NoFile
    /\ cbackups = {}
    /\ cache_last = NoCall
    /\ cache_steps = 0
    /\ cdisk = "ok"
    /\ cset = NoSets
    /\ ctmp = NoFile
    /\ save_pc = "idle"
    /\ save_local = NoSave
    /\ KMUnused
    /\ RLUnused
    /\ DispUnused
    /\ GenUnused

CacheStep ==
    /\ save_pc = "idle"
    /\ cache_steps < MaxCacheSteps
    /\ cache_steps' = cache_steps + 1
    /\ UNCHANGED <<kmVars, rlVars, dispVars, genVars, cdisk, cset, save_pc, save_local>>

CacheSetOp ==
    /\ CacheStep
    /\ \E raw \in RawKeys, v \in Values, ttl \in TTLArgs :
        LET c1 == SetCache(cache, Normalize(raw), v, ttl, now)
            out == AutoSaveOutcome(c1, cfile, ctmp, now, cdisk)
        IN  /\ cache' = out.cache
            /\ cfile' = out.file
            /\ ctmp' = out.tmp
            /\ cache_last' = [op |-> "set", key |-> Normalize(raw), pre |-> cache, ret |-> "True"]
    /\ UNCHANGED <<now, cbackups>>

CacheGetOp ==
    /\ CacheStep
    /\ \E raw \in RawKeys :
        LET key == Normalize(raw)
            c1 == GetCache(cache, key, now)
            hit == GetHits(cache, key, now)
            out == AutoSaveOutcome(c1, cfile, ctmp, now, cdisk)
        IN  /\ cache' = IF hit THEN out.cache ELSE c1
            /\ cfile' = IF hit THEN out.file ELSE cfile
            /\ ctmp' = IF hit THEN out.tmp ELSE ctmp
            /\ cache_last' = [op |-> "get", key |-> key, pre |-> cache,
                              ret |-> GetResult(cache, key, now)]
    /\ UNCHANGED <<now, cbackups>>

CacheDeleteOp ==
    /\ CacheStep
    /\ \E raw \in RawKeys :
        /\ cache' = DeleteKey(cache, Normalize(raw))
        /\ cache_last' = [op |-> "delete", key |-> Normalize(raw), pre |-> cache,
                          ret |-> IF Normalize(raw) \in KeysOf(cache.cache_data)
                                  THEN "True" ELSE "False"]
    /\ UNCHANGED <<now, cfile, cbackups, ctmp>>

\* clear returns True whatever its save() returned
CacheClearOp ==
    /\ CacheStep
    /\ LET c1 == [cache EXCEPT !.cache_data = <<>>, !.modified = TRUE]
           out == SaveOutcome(c1, cfile, ctmp, now, cdisk)
       IN  /\ cache' = out.cache
           /\ cfile' = out.file
           /\ ctmp' = out.tmp
    /\ cache_last' = [op |-> "clear", key |-> "", pre |-> cache, ret |-> "True"]
    /\ UNCHANGED <<now, cbackups>>

CacheSaveOp ==
    /\ CacheStep
    /\ LET out == SaveOutcome(cache, cfile, ctmp, now, cdisk)
       IN  /\ cache' = out.cache
           /\ cfile' = out.file
           /\ ctmp' = out.tmp
           /\ cache_last' = [op |-> "save", key |-> "", pre |-> cache, ret |-> out.ret]
    /\ UNCHANGED <<now, cbackups>>

\* a new process: Cache.__init__ with the configured limits, then load()
CacheLoadOp ==
    /\ CacheStep
    /\ \E m \in MaxItemsChoices, d \in DefaultTTLChoices :
        cache' = LoadCache(NewCache(m, d), cfile)
    /\ cbackups' = BackupCorruptedFile(cbackups, cfile, now, cdisk)
    /\ cache_last' = [op |-> "load", key |-> "", pre |-> cache, ret |-> LoadResult(cfile)]
    /\ UNCHANGED <<now, cfile, ctmp>>

CleanupAllCachesOp ==
    /\ CacheStep
    /\ \E max_age_days \in {NoArg, 1}, max_items \in {NoArg} \cup MaxItemsChoices :
        LET c1 == CleanupExpired(CleanupConfig(cache, max_age_days, max_items), now)
            out == SaveOutcome(c1, cfile, ctmp, now, cdisk)
        IN  /\ cache' = out.cache
            /\ cfile' = out.file
            /\ ctmp' = out.tmp
    /\ cache_last' = [op |-> "cleanup_all_caches", key |-> "", pre |-> cache, ret |-> "stats"]
    /\ UNCHANGED <<now, cbackups>>

TickCache ==
    /\ CacheStep
    /\ \E step \in TickSteps : now' = now + step
    /\ cache_last' = NoCall
    /\ UNCHANGED <<cache, cfile, cbackups, ctmp>>

NextCache ==
    \/ CacheSetOp \/ CacheGetOp \/ CacheDeleteOp \/ CacheClearOp \/ CacheSaveOp
    \/ CacheLoadOp \/ CleanupAllCachesOp \/ TickCache

SpecCache == InitCache /\ [][NextCache]_vars

\* a process started on a path that holds a corrupt file: Cache.__init__ has
\* run load(), which backed the file up and left the store empty
InitCacheCorrupt ==
    /\ now = StartCache
    /\ \E m \in MaxItemsChoices, d \in DefaultTTLChoices :
        /\ cache = LoadCache(NewCache(m, d), CorruptFile)
        /\ cache_last = [op |-> "load", key |-> "", pre |-> NewCache(m, d),
                         ret |-> LoadResult(CorruptFile)]
    /\ cfile = CorruptFile
    /\ cbackups = BackupCorruptedFile({}, CorruptFile, StartCache, "ok")
    /\ cache_steps = 0
    /\ cdisk = "ok"
    /\ cset = NoSets
    /\ ctmp = NoFile
    /\ save_pc = "idle"
    /\ save_local = NoSave
    /\ KMUnused
    /\ RLUnused
    /\ DispUnused
    /\ GenUnused

SpecCacheCorrupt == InitCacheCorrupt /\ [][NextCache]_vars

\* the cache directory stops or starts accepting writes (disk full, permissions)
DiskChange ==
    /\ save_pc = "idle"
    /\ cache_steps < MaxCacheSteps
    /\ cache_steps' = cache_steps + 1
    /\ cdisk' = IF cdisk = "ok" THEN "failing" ELSE "ok"
    /\ cache_last' = NoCall
    /\ UNCHANGED <<now, kmVars, rlVars, dispVars, genVars, cache, cfile, cbackups,
                   ctmp, save_pc, save_local, cset>>

InitCacheFail ==
    /\ now = StartCache
    /\ \E m \in MaxItemsChoices, d \in DefaultTTLChoices : cache = NewCache(m, d)
    /\ cfile = NoFile
    /\ cbackups = {}
    /\ cache_last = NoCall
    /\ cache_steps = 0
    /\ cdisk \in {"ok", "failing"}
    /\ cset = NoSets
    /\ ctmp = NoFile
    /\ save_pc = "idle"
    /\ save_local = NoSave
    /\ KMUnused
    /\ RLUnused
    /\ DispUnused
    /\ GenUnused

NextCacheFail == NextCache \/ DiskChange

(* eviction among entries of every age: a process that has loaded a file
   holding two entries, written by earlier runs *)

MaxEvictSteps == 2
EvictStart == 2 * ScoreCap
AgeChoices == {500, ScoreCap + 100, ScoreCap + 500}
CountChoices == {0, 1}

\* an entry last accessed age seconds before EvictStart; set again or read then
StoredEntry(key, age, count) ==
    [NewEntry(key, "v1", NoTTL, EvictStart - age) EXCEPT !.access_count = count]

InitEvict ==
    /\ now = EvictStart
    /\ \E m \in MaxItemsChoices, age1 \in AgeChoices, age2 \in AgeChoices,
          count1 \in CountChoices, count2 \in CountChoices :
        LET data == <<StoredEntry("a", age1, count1), StoredEntry("b", age2, count2)>>
            f == [kind |-> "v2", saved |-> EvictStart - Min2(age1, age2),
                  entries |-> [i \in 1 .. 2 |-> ToDict(data[i])]]
        IN  /\ cfile = f
            /\ cache = LoadCache(NewCache(m, NoTTL), f)
            /\ cache_last = [op |-> "load", key |-> "", pre |-> NewCache(m, NoTTL),
                             ret |-> LoadResult(f)]
    /\ cbackups = {}
    /\ cache_steps = 0
    /\ cdisk = "ok"
    /\ cset = NoSets
    /\ ctmp = NoFile
    /\ save_pc = "idle"
    /\ save_local = NoSave
    /\ KMUnused
    /\ RLUnused
    /\ DispUnused
    /\ GenUnused

EvictStep == cache_steps < MaxEvictSteps

NextEvict ==
    \/ EvictStep /\ CacheSetOp
    \/ EvictStep /\ CacheGetOp
    \/ EvictStep /\ TickCache

SpecEvict == InitEvict /\ [][NextEvict]_vars

(* save() step by step, with the process able to die between two steps *)

\* entering save() with the dirty flag set: the document is built
EnterSave(op, c) ==
    /\ save_pc' = "open"
    /\ save_local' = [op |-> op, old |-> cfile, new |-> SaveFile(c, cfile, now)]

\* set: the entry is stored, then _auto_save calls save() when it is due
SetStart ==
    /\ save_pc = "idle"
    /\ cache_steps < MaxCacheSteps
    /\ cache_steps' = cache_steps + 1
    /\ \E raw \in RawKeys, v \in Values, ttl \in TTLArgs :
        LET c1 == SetCache(cache, Normalize(raw), v, ttl, now)
        IN  /\ cache' = c1
            /\ IF AutoSaveDue(c1, now)
               THEN EnterSave("set", c1) /\ UNCHANGED cache_last
               ELSE /\ cache_last' = [op |-> "set", key |-> Normalize(raw), pre |-> cache,
                                      ret |-> "True"]
                    /\ UNCHANGED <<save_pc, save_local>>
    /\ UNCHANGED <<now, kmVars, rlVars, dispVars, genVars, cfile, cbackups, cdisk, cset, ctmp>>

\* save(): 'if not self.modified: return True', else the document is built
SaveStart ==
    /\ save_pc = "idle"
    /\ cache_steps < MaxCacheSteps
    /\ cache_steps' = cache_steps + 1
    /\ IF cache.modified
       THEN EnterSave("save", cache) /\ UNCHANGED cache_last
       ELSE /\ cache_last' = [op |-> "save", key |-> "", pre |-> cache, ret |-> "True"]
            /\ UNCHANGED <<save_pc, save_local>>
    /\ UNCHANGED <<now, kmVars, rlVars, dispVars, genVars, cache, cfile, cbackups, cdisk, cset, ctmp>>

\* the steps of save() and the death of the process leave these alone
SaveFrame == UNCHANGED <<now, kmVars, rlVars, dispVars, genVars, cbackups, cache_steps, cdisk, cset>>

\* a call that has ended: what it returned
SaveReturns(ret) ==
    /\ save_pc' = "idle"
    /\ cache_last' = [op |-> save_local.op, key |-> "", pre |-> cache,
                      ret |-> IF save_local.op = "save" THEN ret ELSE "True"]

\* open(temp_file, 'w'): the file is created or truncated
SaveOpenTemp ==
    /\ save_pc = "open"
    /\ IF cdisk = "ok"
       THEN /\ save_pc' = "dump"
            /\ IF DumpTarget = "temp"
               THEN ctmp' = PartialFile /\ UNCHANGED cfile
               ELSE cfile' = PartialFile /\ UNCHANGED ctmp
            /\ UNCHANGED <<cache, cache_last>>
       ELSE /\ SaveReturns("False")
            /\ cache' = SaveFailed(cache)
            /\ UNCHANGED <<cfile, ctmp>>
    /\ UNCHANGED save_local
    /\ SaveFrame

\* json.dump and the close of the with block: the document is complete
SaveDump ==
    /\ save_pc = "dump"
    /\ save_pc' = "replace"
    /\ IF DumpTarget = "temp"
       THEN ctmp' = save_local.new /\ UNCHANGED cfile
       ELSE cfile' = save_local.new /\ UNCHANGED ctmp
    /\ UNCHANGED <<cache, cache_last, save_local>>
    /\ SaveFrame

\* os.replace(temp_file, self.file_path): one atomic rename
SaveReplace ==
    /\ save_pc = "replace"
    /\ save_pc' = "flags"
    /\ IF DumpTarget = "temp"
       THEN cfile' = ctmp /\ ctmp' = NoFile
       ELSE UNCHANGED <<cfile, ctmp>>
    /\ UNCHANGED <<cache, cache_last, save_local>>
    /\ SaveFrame

\* self.modified = False; self.last_saved = time.time(); return True
SaveFinish ==
    /\ save_pc = "flags"
    /\ cache' = SaveCache(cache, now)
    /\ SaveReturns("True")
    /\ UNCHANGED <<cfile, ctmp, save_local>>
    /\ SaveFrame

\* the process dies inside save(): its memory is gone (only the configured
\* limits are kept, for the next process), the files stay as they are
Crash ==
    /\ save_pc \in {"open", "dump", "replace", "flags"}
    /\ save_pc' = "crashed"
    /\ cache' = NewCache(cache.max_items, cache.default_ttl)
    /\ cache_last' = NoCall
    /\ UNCHANGED <<cfile, ctmp, save_local>>
    /\ SaveFrame

\* the next process: Cache.__init__ and load() on the same path
Restart ==
    /\ save_pc = "crashed"
    /\ save_pc' = "idle"
    /\ cache' = LoadCache(NewCache(cache.max_items, cache.default_ttl), cfile)
    /\ cbackups' = BackupCorruptedFile(cbackups, cfile, now, cdisk)
    /\ cache_last' = [op |-> "restart", key |-> "", pre |-> cache, ret |-> LoadResult(cfile)]
    /\ UNCHANGED <<now, kmVars, rlVars, dispVars, genVars, cfile, ctmp, cache_steps, cdisk, cset, save_local>>

InitSaveCrash ==
    /\ now = StartCache
    /\ \E m \in MaxItemsChoices, d \in DefaultTTLChoices : cache = NewCache(m, d)
    /\ cfile = NoFile
    /\ cbackups = {}
    /\ cache_last = NoCall
    /\ cache_steps = 0
    /\ cdisk \in {"ok", "failing"}
    /\ cset = NoSets
    /\ ctmp = NoFile
    /\ save_pc = "idle"
    /\ save_local = NoSave
    /\ KMUnused
    /\ RLUnused
    /\ DispUnused
    /\ GenUnused

NextSaveCrash ==
    \/ SetStart \/ SaveStart \/ SaveOpenTemp \/ SaveDump \/ SaveReplace \/ SaveFinish
    \/ Crash \/ Restart \/ TickCache

SpecSaveCrash == InitSaveCrash /\ [][NextSaveCrash]_vars

SpecCacheFail == InitCacheFail /\ [][NextCacheFail]_vars

----------------------------------------------------------------------------
(* SpecDisp: one call of process_keywords_parallel.  Init is the state     *)
(* after the queue is filled; the calling thread starts the workers one by *)
(* one, joins them and returns.  A worker step is one of: the test of      *)
(* queue.empty(), the get, check_post_exists, the rest of create_post, the *)
(* update of stats under stats_lock, the sleep.                            *)

InitDisp ==
    /\ now = 0
    /\ KMUnused
    /\ RLUnused
    /\ CacheUnused
    /\ \E keywords \in KeywordLists, max_keywords \in MaxKeywordsArgs, random_order \in BOOLEAN :
          keyword_list \in SelectedLists(keywords, max_keywords, random_order)
    /\ max_workers \in WorkerCounts
    /\ published_posts \in PublishedChoices
    /\ keyword_queue = keyword_list
    /\ stats = NewStats
    /\ threads = 0
    /\ worker_pc = [w \in Workers |-> "unstarted"]
    /\ worker_kw = [w \in Workers |-> ""]
    /\ worker_success = [w \in Workers |-> FALSE]
    /\ publish_count = [k \in Keywords |-> 0]
    /\ main_pc = "running"
    /\ result = NoResult
    /\ run_log = <<>>
    /\ worker_call = [w \in Workers |-> NoCreate]
    /\ GenUnused

DispFrame == UNCHANGED <<now, kmVars, rlVars, cacheVars, genVars, keyword_list, max_workers, run_log>>

\* thread.start() of the next worker
StartThread ==
    /\ main_pc = "running"
    /\ threads < ThreadCount(max_workers, Len(keyword_list))
    /\ threads' = threads + 1
    /\ worker_pc' = [worker_pc EXCEPT ![threads + 1] = "loop"]
    /\ DispFrame
    /\ UNCHANGED worker_call
    /\ UNCHANGED <<keyword_queue, stats, worker_kw, worker_success, published_posts,
                   publish_count, main_pc, result>>

\* while not keyword_queue.empty()
WorkerTestEmpty(w) ==
    /\ worker_pc[w] = "loop"
    /\ worker_pc' = [worker_pc EXCEPT ![w] = IF keyword_queue = <<>> THEN "done" ELSE "get"]
    /\ DispFrame
    /\ UNCHANGED worker_call
    /\ UNCHANGED <<keyword_queue, stats, threads, worker_kw, worker_success, published_posts,
                   publish_count, main_pc, result>>

\* keyword_queue.get(timeout=1); queue.Empty breaks out of the loop
WorkerGet(w) ==
    /\ worker_pc[w] = "get"
    /\ IF keyword_queue = <<>>
       THEN /\ worker_pc' = [worker_pc EXCEPT ![w] = "done"]
            /\ UNCHANGED <<keyword_queue, worker_kw>>
       ELSE /\ worker_pc' = [worker_pc EXCEPT ![w] = "check"]
            /\ worker_kw' = [worker_kw EXCEPT ![w] = Head(keyword_queue)]
            /\ keyword_queue' = Tail(keyword_queue)
    /\ DispFrame
    /\ UNCHANGED worker_call
    /\ UNCHANGED <<stats, threads, worker_success, published_posts, publish_count,
                   main_pc, result>>

\* create_post: check_post_exists; an existing post returns True
WorkerCheck(w) ==
    /\ worker_pc[w] = "check"
    /\ IF CheckPostExists(worker_kw[w], published_posts)
       THEN /\ worker_pc' = [worker_pc EXCEPT ![w] = "record"]
            /\ worker_success' = [worker_success EXCEPT ![w] = TRUE]
       ELSE /\ worker_pc' = [worker_pc EXCEPT ![w] = "create"]
            /\ UNCHANGED worker_success
    /\ worker_call' = [worker_call EXCEPT
                          ![w] = [existed |-> worker_kw[w] \in published_posts, touched |-> {}]]
    /\ DispFrame
    /\ UNCHANGED <<keyword_queue, stats, threads, worker_kw, published_posts, publish_count,
                   main_pc, result>>

\* create_post after the check: content generation, then publish_post, which
\* records the keyword in published_posts when the site accepts the post
WorkerCreate(w) ==
    /\ worker_pc[w] = "create"
    /\ \E outcome \in Outcomes :
        /\ worker_success' = [worker_success EXCEPT ![w] = (outcome = "published")]
        /\ published_posts' = IF outcome = "published"
                              THEN published_posts \cup {worker_kw[w]} ELSE published_posts
        /\ publish_count' = IF outcome = "published"
                            THEN [publish_count EXCEPT ![worker_kw[w]] = @ + 1]
                            ELSE publish_count
        /\ worker_call' = [worker_call EXCEPT ![w].touched = Touched(outcome)]
    /\ worker_pc' = [worker_pc EXCEPT ![w] = "record"]
    /\ DispFrame
    /\ UNCHANGED <<keyword_queue, stats, threads, worker_kw, main_pc, result>>

\* with stats_lock: ...; then task_done()
WorkerRecord(w) ==
    /\ worker_pc[w] = "record"
    /\ stats' = RecordStats(stats, worker_kw[w], worker_success[w])
    /\ worker_pc' = [worker_pc EXCEPT ![w] = "sleep"]
    /\ worker_call' = [worker_call EXCEPT ![w] = NoCreate]
    /\ DispFrame
    /\ UNCHANGED <<keyword_queue, threads, worker_kw, worker_success, published_posts,
                   publish_count, main_pc, result>>

\* time.sleep(wait_time), back to the loop test
WorkerSleep(w) ==
    /\ worker_pc[w] = "sleep"
    /\ worker_pc' = [worker_pc EXCEPT ![w] = AfterSleep(worker_success[w])]
    /\ DispFrame
    /\ UNCHANGED worker_call
    /\ UNCHANGED <<keyword_queue, stats, threads, worker_kw, worker_success, published_posts,
                   publish_count, main_pc, result>>

\* thread.join(timeout=3600): the join gives up on a thread that does not end
JoinHasTimeoutMutNone == FALSE
JoinHasTimeout == TRUE

AllStarted == threads = ThreadCount(max_workers, Len(keyword_list))
AllFinished == \A w \in Workers : worker_pc[w] \in {"unstarted", "done"}

\* every thread.join(timeout=3600) returns because its thread has ended
JoinAll ==
    /\ main_pc = "running"
    /\ AllStarted
    /\ AllFinished
    /\ main_pc' = "returned"
    /\ result' = Result(Len(keyword_list), stats, TRUE)
    /\ DispFrame
    /\ UNCHANGED worker_call
    /\ UNCHANGED <<keyword_queue, stats, threads, worker_pc, worker_kw, worker_success,
                   published_posts, publish_count>>

\* some join() times out: the call returns while a worker is still running
JoinTimeout ==
    /\ main_pc = "running"
    /\ AllStarted
    /\ ~AllFinished
    /\ JoinHasTimeout
    /\ main_pc' = "returned"
    /\ result' = Result(Len(keyword_list), stats, FALSE)
    /\ DispFrame
    /\ UNCHANGED worker_call
    /\ UNCHANGED <<keyword_queue, stats, threads, worker_pc, worker_kw, worker_success,
                   published_posts, publish_count>>

NextDisp ==
    \/ StartThread
    \/ \E w \in Workers : WorkerTestEmpty(w)
    \/ \E w \in Workers : WorkerGet(w)
    \/ \E w \in Workers : WorkerCheck(w)
    \/ \E w \in Workers : WorkerCreate(w)
    \/ \E w \in Workers : WorkerRecord(w)
    \/ \E w \in Workers : WorkerSleep(w)
    \/ JoinAll
    \/ JoinTimeout

SpecDisp == InitDisp /\ [][NextDisp]_vars

\* The same with the scheduling the threads get: a started thread that can
\* take a step eventually takes it, and create_post returns.  The calling
\* thread's join has no such guarantee to give: it either sees the workers
\* finished or runs into its timeout.
FairDisp ==
    /\ WF_vars(StartThread)
    /\ \A w \in Workers :
          /\ WF_vars(WorkerTestEmpty(w))
          /\ WF_vars(WorkerGet(w))
          /\ WF_vars(WorkerCheck(w))
          /\ WF_vars(WorkerCreate(w))
          /\ WF_vars(WorkerRecord(w))
          /\ WF_vars(WorkerSleep(w))

LiveWorkerCounts == {0, 1, 2}

InitDispLive ==
    /\ InitDisp
    /\ max_workers \in LiveWorkerCounts
    /\ GenUnused

SpecDispLive == InitDispLive /\ [][NextDisp]_vars /\ FairDisp

\* The run when create_post may never return and the workers may stall at any
\* point: only the calling thread is sure to go on, it starts the threads and
\* each of its joins ends, by the thread's end or by the timeout.
FairMain ==
    /\ WF_vars(StartThread)
    /\ WF_vars(JoinAll \/ JoinTimeout)

SpecDispHang == InitDisp /\ [][NextDisp]_vars /\ FairMain

----------------------------------------------------------------------------
(* SpecRuns: process_keywords_parallel called again after it returned, on  *)
(* the published-posts record the earlier calls left.  The first call      *)
(* starts with an empty record.                                            *)

RunWorkerCounts == {1, 2}

InitRuns ==
    /\ InitDisp
    /\ max_workers \in RunWorkerCounts
    /\ published_posts = {}
    /\ GenUnused

\* the next call, made once the previous one has returned with every worker
\* finished; published_posts is what _save_published_post has written
NewRun ==
    /\ main_pc = "returned"
    /\ result.joined
    /\ AllFinished
    /\ Len(run_log) + 1 < MaxRuns
    /\ run_log' = Append(run_log, [keywords |-> keyword_list,
                                   successful |-> result.successful,
                                   failed |-> result.failed])
    /\ \E keywords \in KeywordLists, max_keywords \in MaxKeywordsArgs, random_order \in BOOLEAN :
          keyword_list' \in SelectedLists(keywords, max_keywords, random_order)
    /\ max_workers' \in RunWorkerCounts
    /\ keyword_queue' = keyword_list'
    /\ stats' = NewStats
    /\ threads' = 0
    /\ worker_pc' = [w \in Workers |-> "unstarted"]
    /\ worker_kw' = [w \in Workers |-> ""]
    /\ worker_success' = [w \in Workers |-> FALSE]
    /\ publish_count' = [k \in Keywords |-> 0]
    /\ worker_call' = [w \in Workers |-> NoCreate]
    /\ main_pc' = "running"
    /\ result' = NoResult
    /\ UNCHANGED <<now, kmVars, rlVars, cacheVars, genVars, published_posts>>

NextRuns == NextDisp \/ NewRun

SpecRuns == InitRuns /\ [][NextRuns]_vars

----------------------------------------------------------------------------
(* Claims about the key manager *)

AllSlots(k) == 0 .. (k.n - 1)

\* C1: the slot whose key get_current_key returns is not in disabled_keys when
\* the call returns, and it is the active slot; a slot that was disabled and
\* still inside its cooldown when the call began is never the one returned
\* unless the call reset every slot.
C1_ReturnedKeyEnabled ==
    km_last.op = "get_current_key" =>
        /\ km_last.ret = km.current_index
        /\ km_last.ret \notin km.disabled_keys
        /\ \A i \in km_last.pre.disabled_keys :
               (~Cooled(km_last.pre, i, now) /\ km_last.pre.disabled_keys # AllSlots(km))
                   => km_last.ret # i

\* C1 witness: 3 credentials, exactly one disabled and still cooling down,
\* get_current_key has just returned one of the other two.
C1_Witness ==
    /\ km_last.op = "get_current_key"
    /\ km.n = 3
    /\ Cardinality(km.disabled_keys) = 1
    /\ km.disabled_keys = km_last.pre.disabled_keys
    /\ \A i \in km.disabled_keys : ~Cooled(km, i, now)
    /\ km_last.ret \in AllSlots(km) \ km.disabled_keys

\* C8 as stated: after mark_error with a high-severity failure on a slot of
\* score s, the score is s + 2 and the slot is disabled iff s + 2 >= max_errors.
C8_Original ==
    (km_last.op = "mark_error" /\ km_last.severity = "high") =>
        LET c == km_last.pre.current_index
            s == km_last.pre.error_counts[c]
        IN  /\ km.error_counts[c] = s + 4
            /\ (c \in km.disabled_keys) <=> (s + 4 >= 2 * km.max_errors)

\* C8 amended: after mark_error with a high-severity failure on a slot of score
\* s, the score is s + 2 and the slot is disabled whatever s + 2 is, unless
\* every other slot was already disabled: then next_key resets the manager,
\* every slot is enabled and every score is 0.
C8_HighSeverityDisables ==
    (km_last.op = "mark_error" /\ km_last.severity = "high") =>
        LET c == km_last.pre.current_index
            s == km_last.pre.error_counts[c]
        IN  IF km_last.pre.disabled_keys \cup {c} = AllSlots(km)
            THEN /\ km.disabled_keys = {}
                 /\ \A i \in AllSlots(km) : km.error_counts[i] = 0
            ELSE /\ km.error_counts[c] = s + 4
                 /\ c \in km.disabled_keys
                 /\ km_last.ret

\* C8 witness: a high-severity failure has just disabled a slot whose score
\* s + 2 is below max_errors.
C8_Witness ==
    /\ km_last.op = "mark_error"
    /\ km_last.severity = "high"
    /\ km_last.pre.current_index \in km.disabled_keys
    /\ km.error_counts[km_last.pre.current_index] < 2 * km.max_errors

\* new = twice floor(old_score / 2), old = twice old_score
IsFloorOfHalf(new, old) == new % 2 = 0 /\ 2 * new <= old /\ old < 2 * new + 4

DisabledIffOverOrHigh ==
    \A i \in AllSlots(km) :
        (i \in km.disabled_keys) <=>
            (km.error_counts[i] >= 2 * km.max_errors \/ i \in km_high)

\* C10 as stated: after every call, for every max_errors >= 1, a slot is disabled
\* iff its score is >= max_errors or a high-severity failure disabled it.
C10_Original == DisabledIffOverOrHigh

\* C10 amended: the same for every max_errors >= 2 (with max_errors = 1 a slot
\* disabled by a high-severity failure is re-admitted with score 1 >= max_errors).
C10_DisabledIffOverOrHigh == km.max_errors >= 2 => DisabledIffOverOrHigh

\* C10 witness: max_errors >= 2 and a slot has just been re-admitted after its
\* cooldown with a score that is not 0.
C10_Witness ==
    /\ km.max_errors >= 2
    /\ km_last.op = "get_current_key"
    /\ \E i \in km_last.pre.disabled_keys :
          i \notin km.disabled_keys /\ km.error_counts[i] > 0

\* C4 as stated: the number of disabled slots never exceeds N, and when every
\* slot is disabled the next get_current_key leaves all N enabled with score 0.
C4_Original ==
    /\ Cardinality(km.disabled_keys) <= km.n
    /\ (km_last.op = "get_current_key" /\ km_last.pre.disabled_keys = AllSlots(km))
           => (km.disabled_keys = {} /\ \A i \in AllSlots(km) : km.error_counts[i] = 0)

\* the increments the specification gives, in units of 0.5
ClaimedIncrement(severity) ==
    IF severity = "high" THEN 4 ELSE IF severity = "medium" THEN 2 ELSE 1

\* C11 as stated: mark_error raises the active slot's score by 2 (high), 1
\* (medium) or 0.5 (low/unknown), and after it returns the slot that failed is
\* disabled whenever its new score is >= max_errors or the severity was high.
C11_Original ==
    km_last.op = "mark_error" =>
        LET c == km_last.pre.current_index
            s == km_last.pre.error_counts[c]
        IN  /\ km.error_counts[c] = s + ClaimedIncrement(km_last.severity)
            /\ (km.error_counts[c] >= 2 * km.max_errors \/ km_last.severity = "high")
                   => c \in km.disabled_keys

\* C11 amended: the same, unless the failure disables the slot while every other
\* slot is already disabled: then next_key resets the manager and mark_error
\* returns with every slot enabled and every score 0.
C11_ScoreAndDisable ==
    km_last.op = "mark_error" =>
        LET c == km_last.pre.current_index
            s == km_last.pre.error_counts[c]
            new == s + ClaimedIncrement(km_last.severity)
            disables == new >= 2 * km.max_errors \/ km_last.severity = "high"
        IN  IF disables /\ km_last.pre.disabled_keys \cup {c} = AllSlots(km)
            THEN /\ km.disabled_keys = {}
                 /\ \A i \in AllSlots(km) : km.error_counts[i] = 0
            ELSE /\ km.error_counts[c] = new
                 /\ disables <=> c \in km.disabled_keys

\* C11 witness: a medium-severity failure has just raised a score to
\* max_errors and the slot is disabled, another slot being in use.
C11_Witness ==
    /\ km_last.op = "mark_error"
    /\ km_last.severity = "medium"
    /\ km.error_counts[km_last.pre.current_index] >= 2 * km.max_errors
    /\ km_last.pre.current_index \in km.disabled_keys
    /\ km.current_index # km_last.pre.current_index

ForcingTypes == {"rate_limit", "authentication", "content_policy"}

C13_Original ==
    (km_last.op = "mark_error" /\ km_last.type \in {"network", "server"}) =>
        LET c == km_last.pre.current_index
            prior == FailureCount(km_last.pre, c)
            new == km_last.pre.error_counts[c] + 2
        IN  /\ prior >= 2 => km_last.ret
            /\ (prior < 2 /\ new < 2 * km.max_errors) =>
                   (~km_last.ret /\ km.current_index = c)

\* C13 amended: a network or server failure makes mark_error rotate (call
\* next_key and return True) exactly when the slot's score before the failure
\* is >= 2 or its score after it is >= max_errors; otherwise mark_error returns
\* False and leaves the active slot and the disabled set unchanged.
C13_RotationByScore ==
    (km_last.op = "mark_error" /\ km_last.type \in {"network", "server"}) =>
        LET c == km_last.pre.current_index
            old == km_last.pre.error_counts[c]
        IN  /\ km_last.ret <=> (old >= 4 \/ old + 2 >= 2 * km.max_errors)
            /\ ~km_last.ret =>
                   /\ km.current_index = c
                   /\ km.disabled_keys = km_last.pre.disabled_keys
                   /\ km.error_counts[c] = old + 2

\* C13 witness: a network or server failure on a slot of score >= 2 has made
\* mark_error rotate to the other slot, the new score being below max_errors.
C13_Witness ==
    /\ km_last.op = "mark_error"
    /\ km_last.type \in {"network", "server"}
    /\ km_last.pre.error_counts[km_last.pre.current_index] >= 4
    /\ km.error_counts[km_last.pre.current_index] < 2 * km.max_errors
    /\ km_last.ret
    /\ km.current_index # km_last.pre.current_index

\* a call of next_key has just returned: made directly, or as the last step of
\* a mark_error that rotated
NextKeyObserved ==
    km_last.op = "next_key" \/ (km_last.op = "mark_error" /\ km_last.ret)

\* the manager when that call of next_key began
NextKeyPre == IF km_last.op = "next_key" THEN km_last.pre ELSE km_last.mid

\* number of steps from slot a forward to slot b, a full turn when b = a
StepsAfter(a, b, n) == ((b - a - 1) % n) + 1

\* C14: next_key selects the first non-disabled slot in cyclic order strictly
\* after the current index, wrapping from N-1 to 0, and lands on the current
\* slot again only when it is the sole enabled one; when no slot is enabled it
\* re-enables every slot with score 0 and returns a usable key.
C14_NextKeyCyclic ==
    NextKeyObserved =>
        LET p == NextKeyPre
            d == StepsAfter(p.current_index, km.current_index, km.n)
        IN  IF p.disabled_keys = AllSlots(km)
            THEN /\ km.disabled_keys = {}
                 /\ \A i \in AllSlots(km) : km.error_counts[i] = 0
                 /\ km.current_index \in AllSlots(km)
            ELSE /\ km.current_index \notin p.disabled_keys
                 /\ \A j \in 1 .. (d - 1) : ((p.current_index + j) % km.n) \in p.disabled_keys
                 /\ km.current_index = p.current_index
                        => AllSlots(km) \ p.disabled_keys = {p.current_index}
                 /\ km.disabled_keys = p.disabled_keys
                 /\ km.error_counts = p.error_counts

\* C14 witness: with 3 slots, next_key called on slot 1 while slot 2 is disabled
\* has skipped slot 2 and wrapped to slot 0.
C14_Witness ==
    /\ km_last.op = "next_key"
    /\ km.n = 3
    /\ km_last.pre.current_index = 1
    /\ km_last.pre.disabled_keys = {2}
    /\ km.current_index = 0

\* next_key has just found every slot disabled and reset the manager
C14_ResetReached ==
    /\ NextKeyObserved
    /\ NextKeyPre.disabled_keys = AllSlots(km)
    /\ km.n >= 2
    /\ km.disabled_keys = {}

\* C15: mark_success increases the active slot's call count by exactly 1 and
\* sets its score to max(0, score - 0.5); it leaves the active index, the
\* disabled set and every other slot's score, call count and histogram
\* unchanged; no slot's score is negative in any reachable state.
C15_MarkSuccessFrame ==
    /\ \A i \in AllSlots(km) : km.error_counts[i] >= 0
    /\ km_last.op = "mark_success" =>
           LET p == km_last.pre
               c == p.current_index
           IN  /\ km.call_counts[c] = p.call_counts[c] + 1
               /\ km.error_counts[c] = Max2(0, p.error_counts[c] - 1)
               /\ km.current_index = c
               /\ km.disabled_keys = p.disabled_keys
               /\ km.error_types = p.error_types
               /\ km.last_error_time = p.last_error_time
               /\ \A i \in AllSlots(km) \ {c} :
                      /\ km.error_counts[i] = p.error_counts[i]
                      /\ km.call_counts[i] = p.call_counts[i]

\* C15 witness: mark_success has just lowered a score of 1 to 0.5 on a manager
\* with another slot disabled.
C15_Witness ==
    /\ km_last.op = "mark_success"
    /\ km_last.pre.error_counts[km.current_index] = 2
    /\ km.error_counts[km.current_index] = 1
    /\ km.disabled_keys # {}

----------------------------------------------------------------------------
(* Claims about the rate limiter *)

\* C2: any two returns of wait_if_needed, by whichever threads, are at least
\* interval = 60/rate seconds apart, whatever the idle time before them: a
\* call that follows a return at once waits the full interval (no credit).
C2_MinimumSpacing ==
    /\ \A i, j \in 1 .. Len(rl_log) :
           i < j => rl_log[j].returned - rl_log[i].returned >= rl.interval
    /\ \A j \in 2 .. Len(rl_log) :
           rl_log[j].entered = rl_log[j - 1].returned => rl_log[j].waited = rl.interval

\* C2 witness: a call made after the limiter was idle for at least two
\* intervals returned without waiting, and a second call by the other thread,
\* entered at that same instant, has returned after waiting the full interval.
C2_Witness ==
    /\ Len(rl_log) >= 2
    /\ rl_log[1].idle >= 2 * rl.interval
    /\ rl_log[1].waited = 0
    /\ rl_log[2].thread # rl_log[1].thread
    /\ rl_log[2].entered = rl_log[1].returned
    /\ rl_log[2].waited = rl.interval
    /\ rl_log[2].returned - rl_log[1].returned >= rl.interval

----------------------------------------------------------------------------
(* Claims about the cache *)

\* C3 as stated: the number of entries is at most max_items after every
\* mutating operation returns (set, delete, get, clear, load, and a lowering
\* of max_items by cleanup_all_caches).
C3_Original == Len(cache.cache_data) <= cache.max_items

\* C7: a get(k) on an entry stored with a TTL, made when
\* now - timestamp > TTL, returns the default and removes the entry; a get on
\* an entry with no TTL returns its payload and keeps it, whatever its age.
C7_ExpiryHonored ==
    (cache_last.op = "get" /\ cache_last.key \in KeysOf(cache_last.pre.cache_data)) =>
        LET e == cache_last.pre.cache_data[IndexOfKey(cache_last.pre.cache_data, cache_last.key)]
        IN  /\ (e.ttl # NoTTL /\ now - e.timestamp > e.ttl) =>
                   (cache_last.ret = Default /\ cache_last.key \notin KeysOf(cache.cache_data))
            /\ e.ttl = NoTTL =>
                   (cache_last.ret = e.data /\ cache_last.key \in KeysOf(cache.cache_data))

\* C7 witness: a get has just found an entry whose TTL had run out, returned the
\* default and removed the entry.
C7_Witness ==
    /\ cache_last.op = "get"
    /\ \E i \in 1 .. Len(cache_last.pre.cache_data) :
          /\ cache_last.pre.cache_data[i].key = cache_last.key
          /\ cache_last.pre.cache_data[i].ttl # NoTTL
          /\ now - cache_last.pre.cache_data[i].timestamp > cache_last.pre.cache_data[i].ttl
    /\ cache_last.ret = Default
    /\ cache_last.key \notin KeysOf(cache.cache_data)

----------------------------------------------------------------------------
(* Claims about the parallel dispatcher *)

RecordsOf(k) == {i \in 1 .. Len(stats.completed) : stats.completed[i][1] = k}

\* C5 as stated: in a run with 2 or more workers, at most one terminal result
\* is recorded and at most one publish is performed for each unique keyword,
\* even when the keyword occurs more than once in the list.
C5_Original ==
    max_workers >= 2 =>
        \A k \in Keywords : Cardinality(RecordsOf(k)) <= 1 /\ publish_count[k] <= 1

\* C6: for a non-empty list and max_workers >= 1, when the call returns after
\* all workers have finished, total_processed is the number of selected
\* keywords and successful + failed = total_processed.
C6_CountsAddUp ==
    (main_pc = "returned" /\ result.joined /\ max_workers >= 1) =>
        /\ result.total_processed = Len(keyword_list)
        /\ result.successful + result.failed = result.total_processed

\* C6 witness: a run of two keywords on two workers has returned after both
\* finished, with one success and one failure.
C6_Witness ==
    /\ main_pc = "returned" /\ result.joined
    /\ max_workers = 2 /\ threads = 2
    /\ Len(keyword_list) = 2
    /\ result.total_processed = 2
    /\ result.successful = 1 /\ result.failed = 1

\* C16 as stated: a keyword submitted twice in one run, and once more in a
\* fresh run after it was recorded as published, gives exactly one success in
\* total over the counts the two runs return.
C16_Original ==
    \A k \in Keywords :
        (/\ Len(run_log) = 1
         /\ run_log[1].keywords = <<k, k>>
         /\ keyword_list = <<k>>
         /\ k \in published_posts
         /\ main_pc = "returned" /\ result.joined)
            => run_log[1].successful + result.successful = 1

\* C17: create_post on a keyword already in the published-posts record returns
\* True at once: no cache access, no rate-limiter wait, no key-manager operation
\* and no publish call, and it creates no post.
C17_ExistingIsNoOp ==
    \A w \in Workers :
        worker_call[w].existed =>
            /\ worker_pc[w] = "record"
            /\ worker_success[w]
            /\ worker_call[w].touched = {}
            /\ (publish_count[worker_kw[w]] = 0 => worker_kw[w] \in published_posts)

\* C17 witness: a worker holds the result of create_post for a keyword that an
\* earlier run had recorded; nothing was published for it in this run.
C17_Witness ==
    \E w \in Workers :
        /\ worker_pc[w] = "record"
        /\ worker_call[w].existed
        /\ worker_success[w]
        /\ worker_call[w].touched = {}
        /\ publish_count[worker_kw[w]] = 0
        /\ worker_kw[w] \in published_posts

Occurrences(seq, k) == Cardinality({i \in 1 .. Len(seq) : seq[i] = k})

\* the workers that have taken k off the queue and not yet recorded its result
HeldBy(k) ==
    {w \in Workers : worker_pc[w] \in {"check", "create", "record"} /\ worker_kw[w] = k}

\* C18: every queue entry is dequeued by exactly one worker and contributes
\* exactly one increment to the shared counters (none lost, none doubled), and
\* the queue never grows after the workers start: what is left of it is a tail
\* of the submitted list, a failed item is not put back.
C18_EachEntryOnce ==
    /\ \A k \in Keywords :
           Occurrences(keyword_queue, k) + Cardinality(HeldBy(k)) + Cardinality(RecordsOf(k))
               = Occurrences(keyword_list, k)
    /\ stats.processed = Len(stats.completed)
    /\ stats.successful = Cardinality({i \in 1 .. Len(stats.completed) : stats.completed[i][2]})
    /\ stats.failed = Cardinality({i \in 1 .. Len(stats.completed) : ~stats.completed[i][2]})
    /\ keyword_queue = SubSeq(keyword_list, Len(keyword_list) - Len(keyword_queue) + 1,
                              Len(keyword_list))

\* C18 witness: of two submitted items one has been recorded as failed and the
\* other is held by a worker inside create_post; the queue is empty.
C18_Witness ==
    /\ Len(keyword_list) = 2
    /\ keyword_queue = <<>>
    /\ stats.failed = 1 /\ stats.processed = 1
    /\ \E w \in Workers : worker_pc[w] = "create"

\* C19: a failed item never stops the run: with max_workers >= 1 and a
\* create_post that always returns, every item put on the queue is eventually
\* dequeued and given a success or failure result, however many earlier items
\* failed.
C19_EveryItemGetsResult ==
    (max_workers >= 1) ~> (keyword_queue = <<>> /\ stats.processed = Len(keyword_list))

\* C19 witness: the first item failed, and the item after it has been dequeued
\* and recorded as well.
C19_Witness ==
    /\ Len(keyword_list) = 2
    /\ stats.processed = 2
    /\ ~stats.completed[1][2]
    /\ keyword_queue = <<>>

\* C20: process_keywords_parallel eventually returns even if a worker's
\* create_post never returns: the hung worker is abandoned when its join times
\* out, and the returned counts satisfy successful + failed <= total_processed.
C20_ReturnsDespiteHang ==
    /\ <>(main_pc = "returned")
    /\ [](main_pc = "returned" =>
             result.successful + result.failed <= result.total_processed)

\* C20 witness: the call has returned while a worker is still inside
\* create_post, with fewer results counted than items selected.
C20_Witness ==
    /\ main_pc = "returned"
    /\ ~result.joined
    /\ \E w \in Workers : worker_pc[w] = "create"
    /\ result.successful + result.failed < result.total_processed

----------------------------------------------------------------------------
(* Persistence of the cache *)

\* the store a new Cache on the same path holds after load(), whatever its limits
Reloaded(f) == LoadCache(NewCache(1, NoTTL), f).cache_data

C23_CorruptLoad ==
    (cache_last.op = "load" /\ cfile.kind = "corrupt")
        => /\ cache_last.ret = "False"
           /\ cache.cache_data = <<>>
           /\ \E b \in cbackups : b.stamp = now /\ b.content = cfile

\* a later process loads the still corrupt file again: a second backup
C23_Witness ==
    /\ cache_last.op = "load"
    /\ cfile.kind = "corrupt"
    /\ cache_steps >= 1
    /\ Cardinality(cbackups) = 2

\* C24: after a load that found a corrupt file, the next save (no mutation in
\* between) leaves a valid empty-store document at the cache path
C24_Original ==
    (cache_steps = 1 /\ cache_last.op = "save")
        => (cfile.kind = "v2" /\ cfile.entries = <<>>)

\* C25: a save whose write fails returns False without raising, leaves every
\* in-memory entry unchanged and keeps the dirty flag set and the last-saved
\* time unchanged; a later save, once writes succeed, flushes the store
C25_FailedSave ==
    /\ (cache_last.op = "save" /\ cache_last.pre.modified /\ cdisk = "failing")
            => /\ cache_last.ret = "False"
               /\ cache = cache_last.pre
               /\ cache.modified
    /\ (cache_last.op = "save" /\ cache_last.pre.modified /\ cdisk = "ok")
            => /\ cache_last.ret = "True"
               /\ ~cache.modified
               /\ Reloaded(cfile) = cache_last.pre.cache_data

\* a save of a store holding an entry failed
C25_Witness ==
    /\ cache_last.op = "save"
    /\ cache_last.ret = "False"
    /\ cdisk = "failing"
    /\ Len(cache.cache_data) >= 1

\* the retry: a store that no write has ever persisted is flushed by a save
\* after the disk recovered
C25_RetryReached ==
    /\ cache_last.op = "save"
    /\ cache_last.ret = "True"
    /\ cache_last.pre.modified
    /\ cache_last.pre.last_saved = 0
    /\ Len(cache.cache_data) >= 1

\* C22: at every point of a save, and after a crash between any two of its
\* steps, the file at the cache path holds either the complete snapshot that
\* was there when the save began or the complete new snapshot, never a partial
\* write; the process started after the crash loads one of the two
C22_AtomicSave ==
    /\ cfile.kind # "corrupt"
    /\ (save_pc # "idle") => (cfile = save_local.old \/ cfile = save_local.new)
    /\ (cache_last.op = "restart")
            => (cache.cache_data = Reloaded(save_local.old)
                \/ cache.cache_data = Reloaded(save_local.new))

\* the process died while the temporary file was partly written, over an
\* earlier snapshot that differs from the new one
C22_Witness ==
    /\ save_pc = "crashed"
    /\ ctmp.kind = "corrupt"
    /\ save_local.old.kind = "v2"
    /\ Len(save_local.old.entries) >= 1
    /\ save_local.new.entries # save_local.old.entries
    /\ cfile = save_local.old

\* the process died after os.replace and before the flags were updated
C22_CrashAfterReplace ==
    /\ save_pc = "crashed"
    /\ ctmp = NoFile
    /\ cfile = save_local.new
    /\ cfile # save_local.old

----------------------------------------------------------------------------
(* Capacity of the cache and the effect of get *)

EntriesOf(data) == {data[i] : i \in 1 .. Len(data)}
AnyExpired(data, t) == \E e \in EntriesOf(data) : IsExpired(e, t)

\* C26: with capacity max_items = M and no entry expiring, inserting distinct
\* keys through set beyond M leaves the store with exactly M entries: a set
\* never leaves more than M entries, and a set of a new key into a store that
\* holds M or more unexpired entries leaves exactly M
C26_ExactlyCapacity ==
    (cache_last.op = "set")
        => /\ Len(cache.cache_data) <= cache.max_items
           /\ (/\ Len(cache_last.pre.cache_data) >= cache.max_items
               /\ cache_last.key \notin KeysOf(cache_last.pre.cache_data)
               /\ ~AnyExpired(cache_last.pre.cache_data, now))
                  => Len(cache.cache_data) = cache.max_items

\* M = 1 and three distinct keys inserted from the empty store: the first is
\* in the file written by the first set, the second was in the store, the
\* third has just been set
C26_Witness ==
    /\ cache_last.op = "set"
    /\ cache_steps = 3
    /\ cache.max_items = 1
    /\ cfile.kind = "v2" /\ KeysOf(cfile.entries) = {"a"}
    /\ KeysOf(cache_last.pre.cache_data) = {"b"}
    /\ cache_last.key = "c"
    /\ ~AnyExpired(cache_last.pre.cache_data, now)
    /\ Len(cache.cache_data) = 1

\* the entries a set has to choose among: the entries it found under other
\* keys; the entry it stored has access_count 0 and last_access now
OldCandidates == {e \in EntriesOf(cache_last.pre.cache_data) : e.key # cache_last.key}
EvictedOld == {e \in OldCandidates : e.key \notin KeysOf(cache.cache_data) /\ ~IsExpired(e, now)}
EvictedScores ==
    {EvictionScore(e, now) : e \in EvictedOld}
        \cup (IF cache_last.key \in KeysOf(cache.cache_data) THEN {} ELSE {ScoreCap})

\* C27: when capacity enforcement evicts by score, every evicted entry has a
\* score (access_count*10 + 1000 - min(1000, seconds since last access), at
\* eviction time) less than or equal to that of every surviving entry, and no
\* unexpired entry is evicted while an expired entry stays in the store
C27_LowestScoresEvicted ==
    (cache_last.op = "set")
        => /\ \A x \in EvictedScores : \A s \in EntriesOf(cache.cache_data) :
                    x <= EvictionScore(s, now)
           /\ (EvictedScores # {}) => ~AnyExpired(cache.cache_data, now)

\* a set evicted an unexpired entry whose score is strictly below a survivor's
C27_Witness ==
    /\ cache_last.op = "set"
    /\ \E e \in EvictedOld : \E s \in EntriesOf(cache.cache_data) :
            EvictionScore(e, now) < EvictionScore(s, now)

\* the entry a get was called on, before the call
GetTarget == cache_last.pre.cache_data[IndexOfKey(cache_last.pre.cache_data, cache_last.key)]

\* C29: get on a present, unexpired key returns its payload, increases that
\* entry's access count by exactly 1 and sets its last-access time to now
\* without changing any other entry; get on an absent key returns the default
\* and changes nothing in the store, the dirty flag included
C29_GetFrame ==
    /\ (cache_last.op = "get" /\ GetHits(cache_last.pre, cache_last.key, now))
            => /\ cache_last.ret = GetTarget.data
               /\ cache.cache_data =
                    [cache_last.pre.cache_data
                        EXCEPT ![IndexOfKey(cache_last.pre.cache_data, cache_last.key)] =
                            [@ EXCEPT !.access_count = GetTarget.access_count + 1,
                                      !.last_access = now]]
    /\ (cache_last.op = "get" /\ cache_last.key \notin KeysOf(cache_last.pre.cache_data))
            => /\ cache_last.ret = Default
               /\ cache = cache_last.pre

\* a hit some seconds after the entry was stored
C29_Witness ==
    /\ cache_last.op = "get"
    /\ GetHits(cache_last.pre, cache_last.key, now)
    /\ GetTarget.last_access < now
    /\ cache_last.ret = "v2"

\* a hit in a store of two entries
C29_OtherEntryReached ==
    /\ cache_last.op = "get"
    /\ GetHits(cache_last.pre, cache_last.key, now)
    /\ Len(cache.cache_data) = 2

\* a miss on an absent key in a store that is not dirty
C29_MissReached ==
    /\ cache_last.op = "get"
    /\ cache_last.key \notin KeysOf(cache_last.pre.cache_data)
    /\ Len(cache.cache_data) >= 1
    /\ ~cache.modified

\* the unexpired entries a set chooses among, the entry it stored included
\* (access_count 0, last_access now), as key, access count and last access
Candidates ==
    {[key |-> e.key, access_count |-> e.access_count, last_access |-> e.last_access] :
        e \in {e \in OldCandidates : ~IsExpired(e, now)}}
    \cup {[key |-> cache_last.key, access_count |-> 0, last_access |-> now]}

Evicted(e) == e.key \notin KeysOf(cache.cache_data)

\* of two candidates, older goes first: newer is not evicted while older stays
OlderFirst(older, newer) == Evicted(newer) => Evicted(older)

C28_CountOrderReached ==
    /\ cache_last.op = "set"
    /\ \E e1 \in Candidates : \E e2 \in Candidates :
        /\ e1.last_access = e2.last_access
        /\ now - e1.last_access > ScoreCap
        /\ e1.access_count = 0 /\ e2.access_count > 0
        /\ Evicted(e1) /\ ~Evicted(e2)

----------------------------------------------------------------------------
(* update_rate *)

\* the sleep wait_if_needed computes at time t with the interval 60/rate
WaitFor(rate, last, t) == IF t - last < Interval(rate) THEN Interval(rate) - (t - last) ELSE 0

\* C30: update_rate is mutually exclusive with wait_if_needed on the same
\* limiter: while a call is checking or sleeping (it holds the lock) the rate
\* and the interval do not change, the interval is always 60/rate for the
\* rate last set, and the wait of a call in progress is the one computed with
\* that interval
C30_UpdateRateExclusive ==
    /\ [](/\ rl.interval = Interval(rl.rate)
          /\ \A t \in Threads : rl_pc[t] = "sleep"
                => rl_local[t].wait_time
                        = WaitFor(rl.rate, rl.last_call_time, rl_local[t].current_time))
    /\ [][(rl_lock # 0) => (rl.rate' = rl.rate /\ rl.interval' = rl.interval)]_vars

\* a call sleeps for an interval that differs from the interval the previous
\* call was held to: update_rate returned in between
C30_Witness ==
    /\ Len(rl_log) = 2
    /\ rl_log[2].waited > 0
    /\ \E t \in Threads :
        /\ rl_pc[t] = "sleep"
        /\ rl_local[t].wait_time > 0
        /\ rl_local[t].wait_time + (rl_local[t].current_time - rl.last_call_time)
                # rl_log[2].waited + rl_log[2].idle
        /\ rl_local[t].wait_time + (rl_local[t].current_time - rl.last_call_time)
                = Interval(rl.rate)

----------------------------------------------------------------------------
(* Cooldown of disabled slots *)

\* the disabled slots whose configured cooldown has passed when get_current_key runs
PastCooldown(k, t) == {i \in k.disabled_keys : t - k.last_error_time[i] > k.error_cooldown}

C39_ResetReached ==
    /\ km_last.op = "mark_error"
    /\ km_last.mid.disabled_keys = Slots(km)
    /\ km.n >= 2
    /\ km.disabled_keys = {}
    /\ km_last.mid.last_error_time[km_last.pre.current_index] = now

----------------------------------------------------------------------------
(* The pause of a worker of process_keywords_parallel between two items *)

MaxPauses == 2

\* random.uniform(3, 7) if success else random.uniform(5, 10), in whole seconds
PauseRange(success) == IF success THEN 3 .. 7 ELSE 5 .. 10

InitPause ==
    /\ now = 0
    /\ KMUnused
    /\ RLUnused
    /\ CacheUnused
    /\ DispUnused
    /\ GenUnused

\* one turn of the worker loop, seen from its end: create_post returned
\* success and the worker sleeps wait_time
WorkerPause ==
    /\ Len(pause_log) < MaxPauses
    /\ \E success \in BOOLEAN :
        \E wait_time \in PauseRange(success) :
            pause_log' = Append(pause_log, [success |-> success, wait_time |-> wait_time])
    /\ UNCHANGED <<now, kmVars, rlVars, cacheVars, dispVars, seq_run, gen, gen_pc, gen_local,
                   gen_last, gen_result>>

SpecPause == InitPause /\ [][WorkerPause]_vars

\* C38: every pause a worker can take after a failed item is at least as long
\* as every pause it can take after a successful item
C38_Original ==
    \A i \in 1 .. Len(pause_log) : \A j \in 1 .. Len(pause_log) :
        (~pause_log[i].success /\ pause_log[j].success)
            => pause_log[i].wait_time >= pause_log[j].wait_time

----------------------------------------------------------------------------
(* WordPressContentCreator.process_keywords: the sequential run *)

SeqOutcomes == Outcomes \cup {"error"}

\* create_post: the value it returns for an outcome
CreatePostReturns(outcome) == outcome \in {"exists", "published"}

\* create_post: self.successful_posts and self.failed_posts after it
CreatePostCounters(outcome, run) ==
    IF outcome = "published" THEN [run EXCEPT !.successful_posts = @ + 1]
    ELSE IF outcome \in {"publish_failed", "error"} THEN [run EXCEPT !.failed_posts = @ + 1]
    ELSE run

\* the dict process_keywords returns
SeqResult(run) ==
    [total_processed |-> Len(run.keyword_list), successful |-> run.successful_posts,
     failed |-> run.failed_posts]

\* process_keywords up to its loop: the list is selected and the counters reset;
\* an empty keywords argument returns the zero dict at once
InitSeq ==
    /\ now = 0
    /\ \E keywords \in KeywordLists, max_keywords \in MaxKeywordsArgs, random_order \in BOOLEAN :
        \E l \in SelectedLists(keywords, max_keywords, random_order) :
            LET run == [pc |-> "running", keyword_list |-> l, i |-> 1, successful_posts |-> 0,
                        failed_posts |-> 0, last |-> "none",
                        result |-> [total_processed |-> 0, successful |-> 0, failed |-> 0]]
            IN  seq_run = IF keywords = <<>> THEN [run EXCEPT !.pc = "returned"] ELSE run
    /\ published_posts \in PublishedChoices
    /\ pause_log = <<>>
    /\ gen = NoGenerator
    /\ gen_pc = [w \in GenWorkers |-> "unstarted"]
    /\ gen_local = [w \in GenWorkers |-> NoAttempt]
    /\ gen_last = [w \in GenWorkers |-> NoEvent]
    /\ gen_result = [w \in GenWorkers |-> "none"]
    /\ keyword_list = <<>>
    /\ max_workers = 0
    /\ keyword_queue = <<>>
    /\ stats = NewStats
    /\ threads = 0
    /\ worker_pc = [w \in Workers |-> "unstarted"]
    /\ worker_kw = [w \in Workers |-> ""]
    /\ worker_success = [w \in Workers |-> FALSE]
    /\ publish_count = [k \in Keywords |-> 0]
    /\ main_pc = "returned"
    /\ result = NoResult
    /\ run_log = <<>>
    /\ worker_call = [w \in Workers |-> NoCreate]
    /\ KMUnused
    /\ RLUnused
    /\ CacheUnused

SeqFrame ==
    UNCHANGED <<now, kmVars, rlVars, cacheVars, keyword_list, max_workers, keyword_queue, stats,
                threads, worker_pc, worker_kw, worker_success, publish_count, main_pc, result,
                run_log, worker_call, pause_log, gen, gen_pc, gen_local, gen_last, gen_result>>

\* one turn of the for loop: create_post(keyword), then the sleep
SeqCreatePost ==
    /\ seq_run.pc = "running"
    /\ seq_run.i <= Len(seq_run.keyword_list)
    /\ LET keyword == seq_run.keyword_list[seq_run.i]
       IN  \E outcome \in (IF CheckPostExists(keyword, published_posts)
                           THEN {"exists"} ELSE SeqOutcomes) :
            /\ seq_run' = [CreatePostCounters(outcome, seq_run)
                                EXCEPT !.i = @ + 1, !.last = outcome]
            /\ published_posts' = IF outcome = "published"
                                  THEN published_posts \cup {keyword} ELSE published_posts
    /\ SeqFrame

\* after the loop: the dict is returned
SeqReturn ==
    /\ seq_run.pc = "running"
    /\ seq_run.i > Len(seq_run.keyword_list)
    /\ seq_run' = [seq_run EXCEPT !.pc = "returned", !.result = SeqResult(seq_run)]
    /\ UNCHANGED published_posts
    /\ SeqFrame

NextSeq == SeqCreatePost \/ SeqReturn

SpecSeq == InitSeq /\ [][NextSeq]_vars

\* C35: in sequential mode the returned counts satisfy successful + failed =
\* total_processed, for every item list and every mix of outcomes of create_post
C35_Original ==
    (seq_run.pc = "returned")
        => seq_run.result.successful + seq_run.result.failed = seq_run.result.total_processed

----------------------------------------------------------------------------
(* set followed by get; when get and set write the file *)

C37_BufferedWrites ==
    [][(cache_last'.op \in {"get", "set"} /\ cache_steps' # cache_steps /\ now' = now) =>
        LET flushed == cache'.last_saved # cache.last_saved \/ cfile' # cfile
            mutated == cache_last'.op = "set" \/ GetHits(cache, cache_last'.key, now)
        IN  /\ flushed => /\ mutated
                          /\ (now - cache.last_saved) > AutoSaveInterval
                          /\ ~cache'.modified
                          /\ cache'.last_saved = now
                          /\ Reloaded(cfile') = cache'.cache_data
            /\ (mutated /\ (now - cache.last_saved) <= AutoSaveInterval) =>
                          /\ ~flushed
                          /\ cache'.modified
                          /\ cfile' = cfile]_vars

\* a set or a successful get made within the interval after a flush was kept in
\* memory: the store is dirty and differs from the file
C37_Witness ==
    /\ cache_last.op \in {"get", "set"}
    /\ cache_last.pre.last_saved > 0
    /\ (now - cache_last.pre.last_saved) <= AutoSaveInterval
    /\ cache.modified
    /\ cache.last_saved = cache_last.pre.last_saved
    /\ Reloaded(cfile) # cache.cache_data

\* a get or set made past the interval after an earlier flush wrote the file
C37_FlushReached ==
    /\ cache_last.op \in {"get", "set"}
    /\ cache_last.pre.last_saved > 0
    /\ (now - cache_last.pre.last_saved) > AutoSaveInterval
    /\ cache.last_saved = now
    /\ ~cache.modified

----------------------------------------------------------------------------
(* ContentGenerator: configure_gemini and research_and_generate_content on the
   module's shared key manager, keyword cache and upstream client, one step
   per call a worker makes on them *)

ResetInterval == 3600        \* reset_interval
GenMaxKeyErrors == 5         \* config.GEMINI_MAX_KEY_ERRORS
GenKeyErrorCooldown == 300   \* config.GEMINI_KEY_ERROR_COOLDOWN
MaxAttempts == 2             \* largest max_attempts argument
MaxGenTicks == 1             \* number of times the clock advances
GenKeyCounts == {1, 2}       \* number of configured credentials
GenTickSteps == {GenKeyErrorCooldown + 1, ResetInterval + 1}
GenKeyword == "A "           \* the keyword argument
FullPair == "v1"             \* a cached dict with 'research' and 'content'
ResearchOnly == "v2"         \* a cached dict with 'research' only
UnknownMessage == {}         \* "API key không hợp lệ": no term of _analyze_error
QuotaMessage == {"rate_limit"}  \* "Rate limit hoặc hết quota: ..."
GenMessages == {{}, {"authentication"}, {"network"}}  \* str(e) of other exceptions
CallOutcomes == {"valid", "invalid", "quota", "error"}

\* lines 97-99: the cached value is a dict holding both parts
IsFullPairMutNever(d) == FALSE
IsFullPair(d) == d = FullPair

\* the loop condition, line 112
LoopGuardMutInclusive(attempts, max_attempts) == attempts <= max_attempts
LoopGuard(attempts, max_attempts) == attempts < max_attempts

\* configure_gemini, lines 52-56: the hourly reset of the initialized flag
ResetIfDue(g, t) ==
    IF t - g.last_reset_time > ResetInterval
    THEN [g EXCEPT !.initialized = FALSE, !.last_reset_time = t]
    ELSE g

\* lines 122-125 and 188-189: the test before next_key
AlreadyTried(k, tried) == k.current_index \in tried /\ Cardinality(tried) < k.n

\* the keyword cache as load() leaves it for a file holding these entries
GenCacheChoices ==
    { <<>>,
      <<NewEntry("a", FullPair, NoTTL, StartCache)>>,
      <<NewEntry("a", ResearchOnly, NoTTL, StartCache)>>,
      <<NewEntry("a", FullPair, 1, StartCache - 2)>> }

GenFileOf(data) ==
    IF data = <<>> THEN NoFile
    ELSE [kind |-> "v2", saved |-> StartCache,
          entries |-> [i \in 1 .. Len(data) |-> ToDict(data[i])]]

InitGen ==
    /\ now = StartCache
    /\ \E n \in GenKeyCounts : km = NewKeyManager(n, GenMaxKeyErrors, GenKeyErrorCooldown)
    /\ km_last = NoCall
    /\ km_high = {}
    /\ km_pc = [t \in Threads |-> "idle"]
    /\ RLUnused
    /\ \E d \in GenCacheChoices :
        /\ cache = [NewCache(2, NoTTL) EXCEPT !.cache_data = d]
        /\ cfile = GenFileOf(d)
    /\ cbackups = {}
    /\ cache_last = NoCall
    /\ cache_steps = 0
    /\ cdisk = "ok"
    /\ cset = NoSets
    /\ ctmp = NoFile
    /\ save_pc = "idle"
    /\ save_local = NoSave
    /\ DispUnused
    /\ pause_log = <<>>
    /\ seq_run = NoSeqRun
    /\ \E m \in 1 .. MaxAttempts, inv \in {{}, {0}} :
        gen = [initialized |-> FALSE, last_reset_time |-> StartCache, configured |-> NoSlot,
               max_attempts |-> m, invalid |-> inv, ticks |-> 0]
    /\ gen_pc = [w \in GenWorkers |-> IF w = 1 THEN "start" ELSE "off"]
    /\ gen_local = [w \in GenWorkers |-> NoAttempt]
    /\ gen_last = [w \in GenWorkers |-> NoEvent]
    /\ gen_result = [w \in GenWorkers |-> "none"]

\* what no step of the generator touches
GenFrame ==
    UNCHANGED <<rlVars, dispVars, km_last, km_high, km_pc, cbackups, cache_last, cache_steps,
                cdisk, cset, save_pc, save_local, pause_log, seq_run>>

\* lines 94-106: keyword_cache.get(keyword_lower) and the use of what it returns
GenLookup(w) ==
    /\ gen_pc[w] = "start"
    /\ LET key == Normalize(GenKeyword)
           found == GetResult(cache, key, now)
           c1 == GetCache(cache, key, now)
           hit == GetHits(cache, key, now)
           out == AutoSaveOutcome(c1, cfile, ctmp, now, cdisk)
       IN  /\ cache' = IF hit THEN out.cache ELSE c1
           /\ cfile' = IF hit THEN out.file ELSE cfile
           /\ ctmp' = IF hit THEN out.tmp ELSE ctmp
           /\ gen_local' = [gen_local EXCEPT ![w].found = found]
           /\ IF IsFullPair(found)
              THEN /\ gen_pc' = [gen_pc EXCEPT ![w] = "returned"]
                   /\ gen_result' = [gen_result EXCEPT ![w] = "cached"]
              ELSE /\ gen_pc' = [gen_pc EXCEPT ![w] = "loop"]
                   /\ UNCHANGED gen_result
    /\ UNCHANGED <<now, km, gen, gen_last>>
    /\ GenFrame

\* lines 112-116: the loop test, attempts += 1, gemini_limiter.wait_if_needed()
GenWait(w) ==
    /\ gen_pc[w] = "loop"
    /\ LoopGuard(gen_local[w].attempts, gen.max_attempts)
    /\ gen_local' = [gen_local EXCEPT ![w].attempts = @ + 1, ![w].waits = @ + 1]
    /\ gen_pc' = [gen_pc EXCEPT ![w] = "key"]
    /\ UNCHANGED <<now, km, cache, cfile, ctmp, gen, gen_last, gen_result>>
    /\ GenFrame

\* lines 195-199: the loop is over, return {}, None
GenGiveUp(w) ==
    /\ gen_pc[w] = "loop"
    /\ ~LoopGuard(gen_local[w].attempts, gen.max_attempts)
    /\ gen_pc' = [gen_pc EXCEPT ![w] = "returned"]
    /\ gen_result' = [gen_result EXCEPT ![w] = "empty"]
    /\ UNCHANGED <<now, km, cache, cfile, ctmp, gen, gen_local, gen_last>>
    /\ GenFrame

\* line 119: current_key = gemini_key_manager.get_current_key()
GenKey(w) ==
    /\ gen_pc[w] = "key"
    /\ km' = GetCurrentKey(km, now)
    /\ gen_local' = [gen_local EXCEPT ![w].current_key = km'.current_index, ![w].gets = @ + 1]
    /\ gen_pc' = [gen_pc EXCEPT ![w] = "index"]
    /\ UNCHANGED <<now, cache, cfile, ctmp, gen, gen_last, gen_result>>
    /\ GenFrame

\* lines 120-127: read current_index, move on if that slot was tried, record it
GenIndex(w) ==
    /\ gen_pc[w] = "index"
    /\ LET k1 == IF AlreadyTried(km, gen_local[w].tried_keys) THEN NextKey(km) ELSE km
           key == IF AlreadyTried(km, gen_local[w].tried_keys)
                  THEN k1.current_index ELSE gen_local[w].current_key
       IN  /\ km' = k1
           /\ gen_local' = [gen_local EXCEPT ![w].current_key = key,
                                             ![w].current_key_index = k1.current_index,
                                             ![w].tried_keys = @ \cup {k1.current_index}]
    /\ gen_pc' = [gen_pc EXCEPT ![w] = "configure"]
    /\ UNCHANGED <<now, cache, cfile, ctmp, gen, gen_last, gen_result>>
    /\ GenFrame

\* lines 129-130 with configure_gemini(current_key), lines 41-80
GenConfigure(w) ==
    /\ gen_pc[w] = "configure"
    /\ LET g1 == ResetIfDue(gen, now)
           key == gen_local[w].current_key
           charged == [kind |-> "report", obtained |-> key, charged |-> km.current_index]
       IN  IF g1.initialized
           THEN /\ gen' = g1
                /\ gen_pc' = [gen_pc EXCEPT ![w] = "call"]
                /\ UNCHANGED <<km, gen_last>>
           ELSE IF key \in g1.invalid
           THEN /\ gen' = g1
                /\ km' = MarkError(km, UnknownMessage, now)
                /\ gen_last' = [gen_last EXCEPT ![w] = charged]
                /\ gen_pc' = [gen_pc EXCEPT ![w] = "loop"]
           ELSE \/ /\ gen' = [g1 EXCEPT !.initialized = TRUE, !.configured = key]
                   /\ gen_pc' = [gen_pc EXCEPT ![w] = "call"]
                   /\ UNCHANGED <<km, gen_last>>
                \/ \E msg \in GenMessages :
                   /\ gen' = [g1 EXCEPT !.initialized = FALSE]
                   /\ km' = MarkError(km, msg, now)
                   /\ gen_last' = [gen_last EXCEPT ![w] = charged]
                   /\ gen_pc' = [gen_pc EXCEPT ![w] = "loop"]
    /\ UNCHANGED <<now, cache, cfile, ctmp, gen_local, gen_result>>
    /\ GenFrame

\* lines 145-152: model.generate_content(prompt), made with the credential
\* last given to genai.configure
GenCall(w) ==
    /\ gen_pc[w] = "call"
    /\ \E o \in CallOutcomes :
        gen_local' = [gen_local EXCEPT ![w].calls = @ + 1, ![w].outcome = o]
    /\ gen_last' = [gen_last EXCEPT ![w] =
                        [kind |-> "call", selected |-> gen_local[w].current_key,
                         used |-> gen.configured]]
    /\ gen_pc' = [gen_pc EXCEPT ![w] = "report"]
    /\ UNCHANGED <<now, km, cache, cfile, ctmp, gen, gen_result>>
    /\ GenFrame

\* lines 155-192: mark_success and the use of the response, or the except branch
GenReport(w) ==
    /\ gen_pc[w] = "report"
    /\ gen_last' = [gen_last EXCEPT ![w] =
                        [kind |-> "report", obtained |-> gen_local[w].current_key,
                         charged |-> km.current_index]]
    /\ LET o == gen_local[w].outcome
       IN  IF o = "valid"
           THEN LET c1 == SetCache(cache, Normalize(GenKeyword), FullPair, NoArg, now)
                    out == AutoSaveOutcome(c1, cfile, ctmp, now, cdisk)
                IN  /\ km' = MarkSuccess(km)
                    /\ cache' = out.cache
                    /\ cfile' = out.file
                    /\ ctmp' = out.tmp
                    /\ gen_pc' = [gen_pc EXCEPT ![w] = "returned"]
                    /\ gen_result' = [gen_result EXCEPT ![w] = "generated"]
           ELSE /\ IF o = "invalid" THEN km' = MarkSuccess(km)
                   ELSE IF o = "quota"
                   THEN LET k1 == MarkError(km, QuotaMessage, now)
                        IN  km' = IF AlreadyTried(k1, gen_local[w].tried_keys)
                                  THEN NextKey(k1) ELSE k1
                   ELSE \E msg \in GenMessages : km' = MarkError(km, msg, now)
                /\ gen_pc' = [gen_pc EXCEPT ![w] = "loop"]
                /\ UNCHANGED <<cache, cfile, ctmp, gen_result>>
    /\ UNCHANGED <<now, gen, gen_local>>
    /\ GenFrame

\* time passes where a worker sleeps: the pause after a failed attempt
\* (line 192) and the limiter's wait before the next one
GenTick ==
    /\ gen.ticks < MaxGenTicks
    /\ \E w \in GenWorkers : gen_pc[w] = "loop"
    /\ \E d \in GenTickSteps : now' = now + d
    /\ gen' = [gen EXCEPT !.ticks = @ + 1]
    /\ UNCHANGED <<km, cache, cfile, ctmp, gen_pc, gen_local, gen_last, gen_result>>
    /\ GenFrame

NextGen ==
    \/ \E w \in GenWorkers : GenLookup(w)
    \/ \E w \in GenWorkers : GenWait(w)
    \/ \E w \in GenWorkers : GenGiveUp(w)
    \/ \E w \in GenWorkers : GenKey(w)
    \/ \E w \in GenWorkers : GenIndex(w)
    \/ \E w \in GenWorkers : GenConfigure(w)
    \/ \E w \in GenWorkers : GenCall(w)
    \/ \E w \in GenWorkers : GenReport(w)
    \/ GenTick

SpecGen == InitGen /\ [][NextGen]_vars

\* two workers of process_keywords_parallel in the same call, on two credentials
\* and an empty keyword cache
InitGenPair ==
    /\ now = StartCache
    /\ km = NewKeyManager(2, GenMaxKeyErrors, GenKeyErrorCooldown)
    /\ km_last = NoCall
    /\ km_high = {}
    /\ km_pc = [t \in Threads |-> "idle"]
    /\ RLUnused
    /\ CacheUnused
    /\ DispUnused
    /\ pause_log = <<>>
    /\ seq_run = NoSeqRun
    /\ \E m \in 1 .. MaxAttempts :
        gen = [initialized |-> FALSE, last_reset_time |-> StartCache, configured |-> NoSlot,
               max_attempts |-> m, invalid |-> {}, ticks |-> 0]
    /\ gen_pc = [w \in GenWorkers |-> "start"]
    /\ gen_local = [w \in GenWorkers |-> NoAttempt]
    /\ gen_last = [w \in GenWorkers |-> NoEvent]
    /\ gen_result = [w \in GenWorkers |-> "none"]

NextGenPair ==
    \/ \E w \in GenWorkers : GenLookup(w)
    \/ \E w \in GenWorkers : GenWait(w)
    \/ \E w \in GenWorkers : GenGiveUp(w)
    \/ \E w \in GenWorkers : GenKey(w)
    \/ \E w \in GenWorkers : GenIndex(w)
    \/ \E w \in GenWorkers : GenConfigure(w)
    \/ \E w \in GenWorkers : GenCall(w)
    \/ \E w \in GenWorkers : GenReport(w)

SpecGenPair == InitGenPair /\ [][NextGenPair]_vars



----------------------------------------------------------------------------
(* research_and_generate_content: cache first, then limiter and key manager *)

\* C31: when the cache returns an unexpired entry holding both research and
\* content for the normalized keyword, that pair is returned and the call made
\* no rate-limiter wait, no key-manager operation and no upstream call;
\* otherwise every upstream call comes after a rate-limiter wait and a
\* get_current_key of the same attempt
C31_CacheFirst ==
    \A w \in GenWorkers :
        /\ gen_local[w].found = FullPair =>
              /\ gen_pc[w] = "returned"
              /\ gen_result[w] = "cached"
              /\ gen_local[w] = [NoAttempt EXCEPT !.found = FullPair]
              /\ gen_last[w] = NoEvent
              /\ TotalCalls(km) = 0 /\ km.current_index = 0 /\ km.disabled_keys = {}
        /\ gen_result[w] = "cached" => gen_local[w].found = FullPair
        /\ gen_local[w].calls <= gen_local[w].attempts
        /\ gen_pc[w] \in {"call", "report"} =>
              /\ gen_local[w].waits = gen_local[w].attempts
              /\ gen_local[w].gets = gen_local[w].attempts
        /\ gen_pc[w] = "report" => gen_local[w].calls >= 1

\* the cached pair was returned for "A ", stored under "a"
C31_Witness ==
    /\ gen_result[1] = "cached"
    /\ gen_local[1].found = FullPair
    /\ "a" \in KeysOf(cache.cache_data)

\* the cache held the pair but expired, and the second attempt made its call
C31_ExpiredReached ==
    /\ cfile.kind = "v2"
    /\ gen_local[1].found = Default
    /\ gen_pc[1] = "report"
    /\ gen_local[1].calls = 2


\* C32 as stated: with one worker, the credential in force for the upstream
\* call of an attempt is the key the manager selected for that attempt
C32_Original ==
    (gen_pc[2] = "off" /\ gen_last[1].kind = "call")
        => gen_last[1].used = gen_last[1].selected

\* C33 as stated: a failure or success a worker reports is charged to the slot
\* whose credential that worker obtained for the attempt
C33_Original ==
    \A w \in GenWorkers :
        gen_last[w].kind = "report" => gen_last[w].charged = gen_last[w].obtained


\* every step a worker can take in research_and_generate_content
GenStep(w) ==
    \/ GenLookup(w) \/ GenWait(w) \/ GenGiveUp(w) \/ GenKey(w)
    \/ GenIndex(w) \/ GenConfigure(w) \/ GenCall(w) \/ GenReport(w)

\* a call that has started keeps running: the limiter's sleep, the upstream
\* call and the pause after a failure all return
SpecGenLive == InitGen /\ [][NextGen]_vars /\ \A w \in GenWorkers : WF_vars(GenStep(w))

\* C40: research_and_generate_content always returns; it runs at most
\* max_attempts loop iterations, with at most max_attempts rate-limiter waits
\* and at most max_attempts upstream calls, and it returns the empty result
\* when no attempt succeeded, also when configuring fails on every attempt
C40_Terminates ==
    /\ [](\A w \in GenWorkers :
            /\ gen_local[w].attempts <= gen.max_attempts
            /\ gen_local[w].waits <= gen.max_attempts
            /\ gen_local[w].calls <= gen.max_attempts
            /\ (gen_pc[w] = "returned" /\ gen_local[w].found # FullPair
                    /\ gen_local[w].outcome # "valid")
                  => (gen_result[w] = "empty" /\ gen_local[w].attempts = gen.max_attempts)
            /\ gen_result[w] = "empty" => gen_pc[w] = "returned")
    /\ \A w \in GenWorkers : (gen_pc[w] = "start") ~> (gen_pc[w] = "returned")

\* configuring failed on every attempt: the call returned empty after
\* max_attempts waits and no upstream call
C40_Witness ==
    /\ gen_pc[1] = "returned"
    /\ gen_result[1] = "empty"
    /\ gen.max_attempts >= 2
    /\ gen_local[1].attempts = gen.max_attempts
    /\ gen_local[1].waits = gen.max_attempts
    /\ gen_local[1].calls = 0

\* every attempt made its upstream call and failed
C40_AllCallsFailedReached ==
    /\ gen_result[1] = "empty"
    /\ gen.max_attempts >= 2
    /\ gen_local[1].calls = gen.max_attempts


----------------------------------------------------------------------------
(* Cache.get and Cache.set called by two threads on one Cache: the object has
   no lock, so the statements of one set interleave with the other thread's *)

\* _limit_cache_size, lines 310-324: the keys of sorted_items[:items_to_remove],
\* in the order the for loop deletes them
EvictionOrder(data, max_items, t) ==
    LET n == Len(data)
        Before(j, i) == \/ EvictionScore(data[j], t) < EvictionScore(data[i], t)
                        \/ (EvictionScore(data[j], t) = EvictionScore(data[i], t) /\ j < i)
        Rank(i) == Cardinality({j \in 1 .. n : Before(j, i)})
    IN  [r \in 1 .. (n - max_items) |-> data[CHOOSE i \in 1 .. n : Rank(i) = r - 1].key]

\* the store when the two threads start: empty or holding one entry
PairStoreChoices == {<<>>, <<NewEntry("a", "v1", NoTTL, StartCache)>>}

InitCachePair ==
    /\ now = StartCache
    /\ KMUnused
    /\ RLUnused
    /\ DispUnused
    /\ GenUnused
    /\ \E m \in MaxItemsChoices, d \in PairStoreChoices :
        /\ cache = [NewCache(m, NoTTL) EXCEPT !.cache_data = d]
        /\ cfile = GenFileOf(d)
    /\ cbackups = {}
    /\ cache_last = NoCall
    /\ cache_steps = 0
    /\ cdisk = "ok"
    /\ cset = NoSets
    /\ ctmp = NoFile
    /\ save_pc = "idle"
    /\ save_local = NoSave

PairFrame ==
    UNCHANGED <<now, kmVars, rlVars, dispVars, genVars, cbackups, cache_last, cdisk,
                save_pc, save_local>>

\* set, lines 236-247: the entry is stored and the dirty flag set
PairSetStore(t) ==
    /\ cset[t].pc = "idle"
    /\ cache_steps < MaxCacheSteps
    /\ cache_steps' = cache_steps + 1
    /\ \E raw \in RawKeys :
        /\ cache' = [cache EXCEPT
                        !.cache_data = PutEntry(@, NewEntry(Normalize(raw), "v1", cache.default_ttl, now)),
                        !.modified = TRUE]
        /\ cset' = [cset EXCEPT ![t] = [pc |-> "limit", key |-> Normalize(raw), victims |-> <<>>]]
    /\ UNCHANGED <<cfile, ctmp>>
    /\ PairFrame

\* _limit_cache_size, lines 290-320: the size test and the choice of the keys to delete
PairSetPlan(t) ==
    /\ cset[t].pc = "limit"
    /\ LET live == SelectSeq(cache.cache_data, LAMBDA e : ~IsExpired(e, now))
       IN  IF Len(cache.cache_data) <= cache.max_items
           THEN /\ cset' = [cset EXCEPT ![t].pc = "autosave"]
                /\ UNCHANGED cache
           ELSE /\ cache' = [cache EXCEPT !.cache_data = live]
                /\ cset' = [cset EXCEPT
                              ![t].pc = "delete",
                              ![t].victims = IF Len(live) > cache.max_items
                                             THEN EvictionOrder(live, cache.max_items, now)
                                             ELSE <<>>]
    /\ UNCHANGED <<cfile, ctmp, cache_steps>>
    /\ PairFrame

\* lines 323-324: one turn of 'for key, _ in sorted_items[:items_to_remove]:
\* del self.cache_data[key]'; del raises KeyError for a key that is gone, and
\* set has no try: the call fails
PairSetDelete(t) ==
    /\ cset[t].pc = "delete"
    /\ IF cset[t].victims = <<>>
       THEN /\ cset' = [cset EXCEPT ![t].pc = "autosave"]
            /\ UNCHANGED cache
       ELSE IF Head(cset[t].victims) \in KeysOf(cache.cache_data)
       THEN /\ cache' = [cache EXCEPT !.cache_data = WithoutKeys(@, {Head(cset[t].victims)})]
            /\ cset' = [cset EXCEPT ![t].victims = Tail(@)]
       ELSE /\ cset' = [cset EXCEPT ![t].pc = "raised"]
            /\ UNCHANGED cache
    /\ UNCHANGED <<cfile, ctmp, cache_steps>>
    /\ PairFrame

\* lines 250-255: _auto_save and return True
PairSetReturn(t) ==
    /\ cset[t].pc = "autosave"
    /\ LET out == AutoSaveOutcome(cache, cfile, ctmp, now, cdisk)
       IN  /\ cache' = out.cache
           /\ cfile' = out.file
           /\ ctmp' = out.tmp
    /\ cset' = [cset EXCEPT ![t].pc = "idle"]
    /\ UNCHANGED cache_steps
    /\ PairFrame

\* get as a whole
PairGet(t) ==
    /\ cset[t].pc = "idle"
    /\ cache_steps < MaxCacheSteps
    /\ cache_steps' = cache_steps + 1
    /\ \E raw \in RawKeys :
        LET key == Normalize(raw)
            c1 == GetCache(cache, key, now)
            hit == GetHits(cache, key, now)
            out == AutoSaveOutcome(c1, cfile, ctmp, now, cdisk)
        IN  /\ cache' = IF hit THEN out.cache ELSE c1
            /\ cfile' = IF hit THEN out.file ELSE cfile
            /\ ctmp' = IF hit THEN out.tmp ELSE ctmp
    /\ UNCHANGED cset
    /\ PairFrame

NextCachePair ==
    \/ \E t \in Threads : PairSetStore(t)
    \/ \E t \in Threads : PairSetPlan(t)
    \/ \E t \in Threads : PairSetDelete(t)
    \/ \E t \in Threads : PairSetReturn(t)
    \/ \E t \in Threads : PairGet(t)

SpecCachePair == InitCachePair /\ [][NextCachePair]_vars

\* C34 as stated: with two threads calling get and set on one Cache, no call
\* fails, and the store has at most max_items entries whenever no call is in
\* progress
C34_Original ==
    /\ \A t \in Threads : cset[t].pc # "raised"
    /\ (\A t \in Threads : cset[t].pc = "idle") => Len(cache.cache_data) <= cache.max_items

=============================================================================
